---- MODULE Spec2Model ----
(***************************************************************************)
(* The response caches of the chat-widget worker.                          *)
(*                                                                         *)
(*   LL_*  the doubly-linked-list LRUCache        (src/unnamed/part_002)   *)
(*   TS_*  the timestamp-scan weighted LRUCache   (src/src/lru-handler.js) *)
(*   LG_*  the legacy count-only LRUCache         (src/src/index.js)       *)
(*                                                                         *)
(* Strings (keys and values) are sequences of characters, so that the      *)
(* empty string is <<>> and a string's length is Len.  A JavaScript Map is *)
(* a function whose DOMAIN is the set of resident keys; where the code     *)
(* iterates a Map (keyTimestamps) the Map is a sequence of <<key, value>>  *)
(* pairs in insertion order.  A linked-list node is an object: nodes live  *)
(* in a store indexed by object identity and point at each other by        *)
(* identity, Null being JavaScript's null/undefined.                       *)
(***************************************************************************)
EXTENDS Integers, Sequences, FiniteSets, TLC

VARIABLES impl, list, listCall, listScen, listOrder, ts, tsCall, tsScen,
          legacy, legacyCall, now, messages, cacheKey, env, kv, req, waiting,
          calls, options, handlers, running, rate

\* ------------------------------------------------------------------ bounds

\* Largest maxSize a count-mode cache is constructed with.
MaxSize == 2
\* The maxWeight a weight-mode cache is constructed with.
MaxWeight == 2

\* The list cache's currentWeight can drift away from the resident weights
\* without limit; calls that would take it further than this below zero (or
\* above every possible sum of resident weights) are not explored.
MaxDrift == 1
\* Removed nodes can stay reachable through the prev and next fields of other
\* nodes, so the objects the list cache keeps alive are unbounded too; calls
\* that would keep more than this many alive are not explored.
MaxNodes == 3

\* ------------------------------------------------------------ input domains

Null == 0

Alphabet == <<"a", "b", "c", "d", "e", "f", "g", "h">>

\* Non-empty keys: one more than the largest capacity, so that a full cache
\* can always be offered a fresh key.
NKeys == MaxSize + 1

\* The keys in a fixed order: the empty string (generateKey of no turns), then
\* NKeys one-character strings.
KeySeq == [i \in 1..8 |-> IF i = 1 THEN <<>> ELSE <<Alphabet[i - 1]>>]

Keys == {KeySeq[i] : i \in 1..(NKeys + 1)}

NonEmptyKeys == Keys \ {<<>>}

\* Key sets a specification offers to a cache.  KeysWithEmpty holds the
\* empty string and as many other keys as the largest capacity, TwoKeys and
\* ThreeKeys are fixed (each further key multiplies the pointer structures
\* and timestamp orders a weight-mode cache can get into).
KeysWithEmpty == {KeySeq[i] : i \in 1..(MaxSize + 1)}

TwoKeys == {KeySeq[1], KeySeq[2]}

ThreeKeys == {KeySeq[1], KeySeq[2], KeySeq[3]}

Str(ch, n) == [i \in 1..n |-> ch]

\* String values of every length from 0 to one more than maxWeight, and a
\* second value of length 1.
Values == {Str("x", n) : n \in 0..(MaxWeight + 1)} \cup {<<"y">>}

\* The values offered to a cache: in count mode the weight function is never
\* called, and two values tell a replaced value from the old one.
ValuesFor(weighted) == IF weighted THEN Values ELSE {<<"x">>, <<"y">>}

\* A value that is an object, given by the text JSON.stringify makes of it
\* (no text when JSON.stringify throws), and a value that is neither a
\* string nor an object.  Every other value is a string, the sequence of its
\* characters.
Obj(json) == <<"object", json>>

JsOther == <<"other">>

IsObject(value) == Len(value) = 2 /\ value[1] = "object"

\* The weight function of the process-wide memoryCache of part_002.
calculateItemWeight(value) ==
  IF IsObject(value)
  THEN IF value[2] = <<>> THEN 1024 ELSE Len(value[2])
  ELSE IF value = JsOther THEN 1
  ELSE Len(value)

\* The weight function of the process-wide memoryCache of lru-handler.js.
TS_calculateItemWeight(value) ==
  IF IsObject(value) \/ value = JsOther THEN 1 ELSE Len(value)

\* JavaScript truthiness of a string.
Truthy(s) == s # <<>>

Infinity == 1000000

RECURSIVE SumOver(_, _)
SumOver(f, S) ==
  IF S = {} THEN 0
  ELSE LET x == CHOOSE y \in S : TRUE IN f[x] + SumOver(f, S \ {x})

InSeq(x, s) == \E i \in 1..Len(s) : s[i] = x

IndexOf(x, s) == CHOOSE i \in 1..Len(s) : s[i] = x

RemoveFromSeq(x, s) == SelectSeq(s, LAMBDA y : y # x)

EmptyMap == [k \in {} |-> Null]

MapDelete(m, key) == [k \in (DOMAIN m) \ {key} |-> m[k]]

MapSet(m, key, v) == [k \in (DOMAIN m) \cup {key} |-> IF k = key THEN v ELSE m[k]]

\* ======================================================================
\* Linked-list LRUCache (src/unnamed/part_002)
\* ======================================================================

\* new LRUCache(options): the object's fields.  threw records that the last
\* method call ended in a TypeError.
LL_constructor(weighted, maxWeight, maxSize) ==
  [ isWeightedMode |-> weighted,
    maxWeight      |-> IF weighted THEN maxWeight ELSE Infinity,
    maxSize        |-> IF weighted THEN Infinity ELSE maxSize,
    cache          |-> EmptyMap,
    nodes          |-> <<>>,
    currentWeight  |-> 0,
    head           |-> Null,
    tail           |-> Null,
    threw          |-> FALSE ]

LL_has(c, key) == key \in DOMAIN c.cache

\* The place of a fresh object in the node store.
LL_newId(c) == Len(c.nodes) + 1

\* A get or an update that forgets to refresh the node's position.
LL_moveToFront_forgotten(c, node) == c

LL_moveToFront(c, node) ==
  IF node = c.head THEN c
  ELSE
    LET c1 == IF node = c.tail
              THEN LET t == c.nodes[node].prev IN
                   [c EXCEPT !.tail = t,
                             !.nodes = IF t # Null
                                       THEN [c.nodes EXCEPT ![t].next = Null]
                                       ELSE c.nodes]
              ELSE LET s0 == c.nodes
                       s1 == IF s0[node].prev # Null
                             THEN [s0 EXCEPT ![s0[node].prev].next = s0[node].next]
                             ELSE s0
                       s2 == IF s1[node].next # Null
                             THEN [s1 EXCEPT ![s1[node].next].prev = s1[node].prev]
                             ELSE s1
                   IN [c EXCEPT !.nodes = s2]
        s3 == [c1.nodes EXCEPT ![node].next = c1.head, ![node].prev = Null]
        s4 == IF c1.head # Null THEN [s3 EXCEPT ![c1.head].prev = node] ELSE s3
    IN [c1 EXCEPT !.nodes = s4,
                  !.head = node,
                  !.tail = IF c1.tail = Null THEN node ELSE c1.tail]

LL_addToFront(c, node) ==
  LET s1 == [c.nodes EXCEPT ![node].next = c.head, ![node].prev = Null]
      s2 == IF c.head # Null THEN [s1 EXCEPT ![c.head].prev = node] ELSE s1
  IN [c EXCEPT !.nodes = s2,
               !.head = node,
               !.tail = IF c.tail = Null THEN node ELSE c.tail]

\* node.prev.next = ... and node.next.prev = ... throw a TypeError when
\* node.prev, respectively node.next, is null; the first assignment has
\* already been made when the second one throws.
LL_removeNode(c, node) ==
  IF node = c.head
  THEN LET h == c.nodes[node].next IN
       [c EXCEPT !.head = h,
                 !.nodes = IF h # Null THEN [c.nodes EXCEPT ![h].prev = Null]
                                       ELSE c.nodes]
  ELSE IF node = c.tail
  THEN LET t == c.nodes[node].prev IN
       [c EXCEPT !.tail = t,
                 !.nodes = IF t # Null THEN [c.nodes EXCEPT ![t].next = Null]
                                       ELSE c.nodes]
  ELSE LET s0 == c.nodes IN
       IF s0[node].prev = Null THEN [c EXCEPT !.threw = TRUE]
       ELSE LET s1 == [s0 EXCEPT ![s0[node].prev].next = s0[node].next] IN
            IF s1[node].next = Null
            THEN [c EXCEPT !.nodes = s1, !.threw = TRUE]
            ELSE [c EXCEPT !.nodes =
                     [s1 EXCEPT ![s1[node].next].prev = s1[node].prev]]

LL_removeItem(c, key) ==
  IF key \notin DOMAIN c.cache THEN c
  ELSE
    LET node == c.cache[key]
        c1 == IF c.isWeightedMode /\ c.nodes[node].weight # 0
              THEN [c EXCEPT !.currentWeight = c.currentWeight - c.nodes[node].weight]
              ELSE c
        c2 == LL_removeNode(c1, node)
    IN IF c2.threw THEN c2
       ELSE [c2 EXCEPT !.cache = MapDelete(c2.cache, key)]

RECURSIVE LL_makeSpaceForWeight(_, _)
LL_makeSpaceForWeight(c, requiredWeight) ==
  IF c.tail # Null /\ c.currentWeight + requiredWeight > c.maxWeight
  THEN LET tailNode == c.tail
           tailWeight == c.nodes[tailNode].weight
           t == c.nodes[tailNode].prev
       IN LL_makeSpaceForWeight(
            [c EXCEPT !.tail = t,
                      !.nodes = IF t # Null THEN [c.nodes EXCEPT ![t].next = Null]
                                            ELSE c.nodes,
                      !.head = IF t # Null THEN c.head ELSE Null,
                      !.cache = MapDelete(c.cache, c.nodes[tailNode].key),
                      !.currentWeight = c.currentWeight - tailWeight],
            requiredWeight)
  ELSE c

\* An eviction that unlinks the tail but leaves its entry in the Map.
LL_evictLRU_keepsEntry(c) ==
  IF c.tail = Null THEN c
  ELSE LET t == c.nodes[c.tail].prev
       IN [c EXCEPT !.tail = t,
                    !.nodes = IF t # Null THEN [c.nodes EXCEPT ![t].next = Null]
                                          ELSE c.nodes,
                    !.head = IF t # Null THEN c.head ELSE Null]

LL_evictLRU(c) ==
  IF c.tail = Null THEN c
  ELSE LET tailKey == c.nodes[c.tail].key
           t == c.nodes[c.tail].prev
       IN [c EXCEPT !.tail = t,
                    !.nodes = IF t # Null THEN [c.nodes EXCEPT ![t].next = Null]
                                          ELSE c.nodes,
                    !.head = IF t # Null THEN c.head ELSE Null,
                    !.cache = MapDelete(c.cache, tailKey)]

\* An update that leaves the node where it is in the list.
LL_setUpdate_inPlace(c, key, value, itemWeight) ==
  LET existingNode == c.cache[key]
  IN [c EXCEPT !.nodes = [c.nodes EXCEPT ![existingNode].value = value,
                                         ![existingNode].weight = itemWeight]]

\* set, update branch: the key is resident.
LL_setUpdate(c, key, value, itemWeight) ==
  LET existingNode == c.cache[key]
      oldWeight == c.nodes[existingNode].weight
      c1 == [c EXCEPT !.nodes = [c.nodes EXCEPT ![existingNode].value = value,
                                                ![existingNode].weight = itemWeight],
                      !.currentWeight = IF c.isWeightedMode
                                        THEN c.currentWeight - oldWeight + itemWeight
                                        ELSE c.currentWeight]
  IN LL_moveToFront(c1, existingNode)

\* set, insert branch: the key is not resident.
LL_setInsert(c, key, value, itemWeight) ==
  LET c1 == IF c.isWeightedMode THEN LL_makeSpaceForWeight(c, itemWeight)
            ELSE IF Cardinality(DOMAIN c.cache) >= c.maxSize THEN LL_evictLRU(c)
            ELSE c
      newNode == LL_newId(c1)
      c2 == [c1 EXCEPT !.nodes = Append(c1.nodes,
                                   [key |-> key, value |-> value, weight |-> itemWeight,
                                    next |-> Null, prev |-> Null]),
                       !.cache = MapSet(c1.cache, key, newNode)]
      c3 == LL_addToFront(c2, newNode)
  IN IF c3.isWeightedMode
     THEN [c3 EXCEPT !.currentWeight = c3.currentWeight + itemWeight]
     ELSE c3

LL_set(c, key, value) ==
  LET itemWeight == IF c.isWeightedMode THEN calculateItemWeight(value) ELSE 0 IN
  IF c.isWeightedMode /\ itemWeight > c.maxWeight
  THEN IF key \in DOMAIN c.cache THEN LL_removeItem(c, key) ELSE c
  ELSE IF key \in DOMAIN c.cache
  THEN LL_setUpdate(c, key, value, itemWeight)
  ELSE LL_setInsert(c, key, value, itemWeight)

\* get: the cache after the call (the recency move); LL_getResult is what
\* the call returns.
LL_get(c, key) ==
  IF key \notin DOMAIN c.cache THEN c
  ELSE LL_moveToFront(c, c.cache[key])

LL_getFound(c, key) == key \in DOMAIN c.cache

LL_getResult(c, key) ==
  IF key \notin DOMAIN c.cache THEN <<>> ELSE c.nodes[c.cache[key]].value

LL_clear(c) ==
  [c EXCEPT !.cache = EmptyMap, !.head = Null, !.tail = Null, !.currentWeight = 0]

\* Object identity is abstract: the objects still reachable from the cache
\* (from head, tail and the Map's values, through next and prev) are
\* renumbered in the order a fixed traversal meets them, and the others are
\* garbage.
RECURSIVE LL_reach(_, _, _)
LL_reach(nodes, todo, seen) ==
  IF todo = <<>> THEN seen
  ELSE LET n == Head(todo) IN
       IF n = Null \/ InSeq(n, seen) THEN LL_reach(nodes, Tail(todo), seen)
       ELSE LL_reach(nodes, <<nodes[n].next, nodes[n].prev>> \o Tail(todo),
                     Append(seen, n))

LL_roots(c) ==
  <<c.head, c.tail>> \o
  [i \in 1..Len(KeySeq) |->
     IF KeySeq[i] \in DOMAIN c.cache THEN c.cache[KeySeq[i]] ELSE Null]

LL_collect(c) ==
  LET live == LL_reach(c.nodes, LL_roots(c), <<>>)
      ren(n) == IF n = Null THEN Null ELSE IndexOf(n, live)
  IN [c EXCEPT !.nodes = [i \in 1..Len(live) |->
                            [c.nodes[live[i]] EXCEPT !.next = ren(@), !.prev = ren(@)]],
               !.cache = [k \in DOMAIN c.cache |-> ren(c.cache[k])],
               !.head = ren(c.head),
               !.tail = ren(c.tail)]

\* ------------------------------------------------- history (not program state)

\* The last call made on a cache: its arguments and what it returned.
Call(op, key, value, found, out) ==
  [op |-> op, key |-> key, value |-> value, found |-> found, out |-> out]

\* The calls since the cache was last empty by construction or clear, as long
\* as they are sets of pairwise distinct keys, with at most one call on a
\* resident key, made on the first-inserted key when exactly n keys had been
\* inserted: a get (read) or a set with a value other than the stored one
\* (updated, value being the new value).
ScenInit ==
  [ok |-> TRUE, keys |-> <<>>, read |-> FALSE, updated |-> FALSE, value |-> <<>>]

ScenOff ==
  [ok |-> FALSE, keys |-> <<>>, read |-> FALSE, updated |-> FALSE, value |-> <<>>]

ScenSet(s, key, n) ==
  IF s.ok /\ ~InSeq(key, s.keys) /\ Len(s.keys) <= n
     /\ ((s.read \/ s.updated) => Len(s.keys) = n)
  THEN [s EXCEPT !.keys = Append(s.keys, key)]
  ELSE ScenOff

ScenGet(s, key, n) ==
  IF s.ok /\ ~s.read /\ ~s.updated /\ Len(s.keys) = n /\ key = s.keys[1]
  THEN [s EXCEPT !.read = TRUE]
  ELSE ScenOff

\* A set of value under key, old being the value stored under it (if any).
ScenWrite(s, key, value, old, n) ==
  IF s.ok /\ ~s.read /\ ~s.updated /\ Len(s.keys) = n /\ key = s.keys[1]
     /\ value # old
  THEN [s EXCEPT !.updated = TRUE, !.value = value]
  ELSE ScenSet(s, key, n)

\* The resident keys from the least to the most recently touched by get or set.
Touch(order, key, resident) ==
  LET kept == SelectSeq(order, LAMBDA k : k # key /\ k \in resident)
  IN IF key \in resident THEN Append(kept, key) ELSE kept

\* ======================================================================
\* Timestamp-based weighted LRUCache (src/src/lru-handler.js)
\* ======================================================================

\* A JavaScript value that is null or a string, and its truthiness.
JsNull == [isNull |-> TRUE, str |-> <<>>]

JsStr(s) == [isNull |-> FALSE, str |-> s]

JsTruthy(v) == ~v.isNull /\ Truthy(v.str)

\* A Map that the code iterates: <<key, value>> pairs in insertion order.
\* Map.set on a present key keeps its place; on an absent key it appends.
OMapHas(m, key) == \E i \in 1..Len(m) : m[i][1] = key

OMapSet(m, key, v) ==
  IF OMapHas(m, key)
  THEN [i \in 1..Len(m) |-> IF m[i][1] = key THEN <<key, v>> ELSE m[i]]
  ELSE Append(m, <<key, v>>)

OMapDelete(m, key) == SelectSeq(m, LAMBDA e : e[1] # key)

OMapKeys(m) == {m[i][1] : i \in 1..Len(m)}

TS_constructor(weighted, maxWeight, maxSize) ==
  [ isWeightedMode |-> weighted,
    maxWeight      |-> IF weighted THEN maxWeight ELSE Infinity,
    maxSize        |-> IF weighted THEN Infinity ELSE maxSize,
    cache          |-> EmptyMap,
    keyTimestamps  |-> <<>>,
    currentWeight  |-> 0 ]

TS_has(c, key) == key \in DOMAIN c.cache

\* A get that stamps the key before it looks whether the key is resident.
TS_get_stampsFirst(c, key, t) ==
  [c EXCEPT !.keyTimestamps = OMapSet(c.keyTimestamps, key, t)]

\* get at clock value t: the cache after the call, and what the call returns.
TS_get(c, key, t) ==
  IF ~TS_has(c, key) THEN c
  ELSE [c EXCEPT !.keyTimestamps = OMapSet(c.keyTimestamps, key, t)]

TS_getFound(c, key) == TS_has(c, key)

TS_getResult(c, key) == IF ~TS_has(c, key) THEN <<>> ELSE c.cache[key].value

\* The scan for the smallest timestamp: the first entry, in iteration order,
\* that is strictly older than every entry before it.
\* A scan that compares with <= and so keeps the last of several oldest entries.
RECURSIVE ScanOldest_lastOfTies(_, _, _, _)
ScanOldest_lastOfTies(m, i, oldestKey, oldestTime) ==
  IF i > Len(m) THEN oldestKey
  ELSE IF m[i][2] <= oldestTime
       THEN ScanOldest_lastOfTies(m, i + 1, JsStr(m[i][1]), m[i][2])
       ELSE ScanOldest_lastOfTies(m, i + 1, oldestKey, oldestTime)

RECURSIVE ScanOldest(_, _, _, _)
ScanOldest(m, i, oldestKey, oldestTime) ==
  IF i > Len(m) THEN oldestKey
  ELSE IF m[i][2] < oldestTime
       THEN ScanOldest(m, i + 1, JsStr(m[i][1]), m[i][2])
       ELSE ScanOldest(m, i + 1, oldestKey, oldestTime)

TS_getOldestKey(c) ==
  IF Len(c.keyTimestamps) = 0 THEN JsNull
  ELSE ScanOldest(c.keyTimestamps, 1, JsNull, Infinity)

\* evictOneLRU: the cache after the call; TS_evictOneLRUResult is what it returns.
TS_evictOneLRU(c) ==
  LET oldestKey == TS_getOldestKey(c) IN
  IF JsTruthy(oldestKey)
  THEN LET k == oldestKey.str IN
       [c EXCEPT !.cache = MapDelete(c.cache, k),
                 !.keyTimestamps = OMapDelete(c.keyTimestamps, k),
                 !.currentWeight = IF c.isWeightedMode /\ k \in DOMAIN c.cache
                                   THEN c.currentWeight - c.cache[k].weight
                                   ELSE c.currentWeight]
  ELSE c

TS_evictOneLRUResult(c) == JsTruthy(TS_getOldestKey(c))

\* The eviction loop of set in weight mode.
RECURSIVE TS_evictUntilFits(_, _)
TS_evictUntilFits(c, itemWeight) ==
  IF Cardinality(DOMAIN c.cache) > 0 /\ c.currentWeight + itemWeight > c.maxWeight
  THEN IF ~TS_evictOneLRUResult(c) THEN c
       ELSE TS_evictUntilFits(TS_evictOneLRU(c), itemWeight)
  ELSE c

\* set, the removal of an entry already stored under the key.
\* A removal of the old entry that forgets to give its weight back.
TS_removeOld_keepsWeight(c, key) ==
  IF key \in DOMAIN c.cache
  THEN [c EXCEPT !.cache = MapDelete(c.cache, key),
                 !.keyTimestamps = OMapDelete(c.keyTimestamps, key)]
  ELSE c

TS_removeOld(c, key) ==
  IF key \in DOMAIN c.cache
  THEN [c EXCEPT !.currentWeight = IF c.isWeightedMode
                                   THEN c.currentWeight - c.cache[key].weight
                                   ELSE c.currentWeight,
                 !.cache = MapDelete(c.cache, key),
                 !.keyTimestamps = OMapDelete(c.keyTimestamps, key)]
  ELSE c

TS_store(c, key, value, itemWeight, t) ==
  [c EXCEPT !.cache = MapSet(c.cache, key, [value |-> value, weight |-> itemWeight]),
            !.keyTimestamps = OMapSet(c.keyTimestamps, key, t)]

\* set at clock value t.
TS_set(c, key, value, t) ==
  LET itemWeight == IF c.isWeightedMode THEN TS_calculateItemWeight(value) ELSE 0 IN
  IF c.isWeightedMode /\ itemWeight > c.maxWeight
  THEN TS_removeOld(c, key)
  ELSE
    LET c1 == TS_removeOld(c, key) IN
    IF c.isWeightedMode
    THEN LET c2 == TS_evictUntilFits(c1, itemWeight) IN
         IF c2.currentWeight + itemWeight <= c2.maxWeight
         THEN LET c3 == TS_store(c2, key, value, itemWeight, t) IN
              [c3 EXCEPT !.currentWeight = c3.currentWeight + itemWeight]
         ELSE c2
    ELSE LET c2 == IF Cardinality(DOMAIN c1.cache) >= c1.maxSize
                   THEN TS_evictOneLRU(c1) ELSE c1
         IN TS_store(c2, key, value, 0, t)

\* A clear that forgets the Map of timestamps.
TS_clear_keepsStamps(c) == [c EXCEPT !.cache = EmptyMap, !.currentWeight = 0]

TS_clear(c) ==
  [c EXCEPT !.cache = EmptyMap, !.keyTimestamps = <<>>, !.currentWeight = 0]

\* ======================================================================
\* Legacy count-only LRUCache (src/src/index.js)
\* ======================================================================

LG_constructor(maxSize) ==
  [ maxSize       |-> maxSize,
    cache         |-> EmptyMap,
    keyTimestamps |-> <<>> ]

LG_has(c, key) == key \in DOMAIN c.cache

LG_get(c, key, t) ==
  IF ~LG_has(c, key) THEN c
  ELSE [c EXCEPT !.keyTimestamps = OMapSet(c.keyTimestamps, key, t)]

LG_getFound(c, key) == LG_has(c, key)

LG_getResult(c, key) == IF ~LG_has(c, key) THEN <<>> ELSE c.cache[key]

LG_evictLRU(c) ==
  IF Cardinality(DOMAIN c.cache) = 0 THEN c
  ELSE LET oldestKey == ScanOldest(c.keyTimestamps, 1, JsNull, Infinity) IN
       IF JsTruthy(oldestKey)
       THEN [c EXCEPT !.cache = MapDelete(c.cache, oldestKey.str),
                      !.keyTimestamps = OMapDelete(c.keyTimestamps, oldestKey.str)]
       ELSE c

LG_set(c, key, value, t) ==
  LET c1 == IF Cardinality(DOMAIN c.cache) >= c.maxSize THEN LG_evictLRU(c) ELSE c
  IN [c1 EXCEPT !.cache = MapSet(c1.cache, key, value),
                !.keyTimestamps = OMapSet(c1.keyTimestamps, key, t)]

LG_clear(c) == [c EXCEPT !.cache = EmptyMap, !.keyTimestamps = <<>>]

\* ======================================================================
\* Key derivation: LRUCache.generateKey (all three files)
\* ======================================================================

\* The number of trailing turns that take part in the key.
KeyWindow == 3

Max(a, b) == IF a >= b THEN a ELSE b

\* The template literal `${msg.role}:${msg.content}` for string fields.
KeyPart(msg) == msg.role \o <<":">> \o msg.content

\* Array.prototype.join.
RECURSIVE Join(_, _)
Join(parts, sep) ==
  IF Len(parts) = 0 THEN <<>>
  ELSE IF Len(parts) = 1 THEN parts[1]
  ELSE parts[1] \o sep \o Join(Tail(parts), sep)

\* The loop of part_002: i runs from startIndex to len - 1 (0-based).
RECURSIVE LL_keyLoop(_, _, _)
LL_keyLoop(msgs, i, keyParts) ==
  IF i < Len(msgs)
  THEN LL_keyLoop(msgs, i + 1, Append(keyParts, KeyPart(msgs[i + 1])))
  ELSE keyParts

LL_generateKey(msgs) ==
  LET len == Len(msgs) IN
  IF len = 0 THEN <<>>
  ELSE Join(LL_keyLoop(msgs, Max(0, len - KeyWindow), <<>>), <<"|">>)

\* A key derived from the last two turns only.
TS_generateKey_lastTwo(msgs) ==
  LET messagesToConsider == SubSeq(msgs, Max(0, Len(msgs) - 2) + 1, Len(msgs))
      keyParts == [i \in 1..Len(messagesToConsider) |-> KeyPart(messagesToConsider[i])]
  IN Join(keyParts, <<"|">>)

\* The slice/map version of lru-handler.js and index.js.
TS_generateKey(msgs) ==
  LET messagesToConsider ==
        SubSeq(msgs, Max(0, Len(msgs) - KeyWindow) + 1, Len(msgs))
      keyParts == [i \in 1..Len(messagesToConsider) |-> KeyPart(messagesToConsider[i])]
  IN Join(keyParts, <<"|">>)

\* No key has been derived yet.
NoKey == [loop |-> JsNull, slice |-> JsNull]

\* No sendToAI call has been made: where the call stands (pc), the calls it
\* has made under its key on the caches and KV, on the model, and the sets
\* queryWikipedia made for it (events), what it returned (reply), and what
\* it found: the memory cache's value for the key at entry (memHad), the raw
\* value env.KV.get returned (kvGot), whether queryWikipedia returned an
\* article (wikiSuccess), the model's response text (aiText).
ReqIdle ==
  [pc |-> "idle", events |-> <<>>, reply |-> JsNull,
   memHad |-> JsNull, kvGot |-> JsNull, wikiSuccess |-> FALSE, aiText |-> JsNull]

\* ------------------------------------------------- construction from options

\* A JavaScript value that is null/undefined or a number.
NumNull == [isNull |-> TRUE, num |-> 0]

Num(n) == [isNull |-> FALSE, num |-> n]

\* options.maxSize || 50
DefaultMaxSize == 50

\* The test of the constructors of part_002 and lru-handler.js:
\* this.calculateItemWeight && options.maxWeight != null && options.maxWeight > 0
\* (options.calculateItemWeight is TRUE when a function is supplied).
WeightedOptions(o) ==
  o.calculateItemWeight /\ ~o.maxWeight.isNull /\ o.maxWeight.num > 0

CountSizeOf(o) ==
  IF ~o.maxSize.isNull /\ o.maxSize.num # 0 THEN o.maxSize.num ELSE DefaultMaxSize

\* A constructor that takes maxWeight > 0 alone for weight mode.
LL_new_ignoresFunction(o) ==
  IF ~o.maxWeight.isNull /\ o.maxWeight.num > 0
  THEN LL_constructor(TRUE, o.maxWeight.num, Infinity)
  ELSE LL_constructor(FALSE, Infinity, CountSizeOf(o))

LL_new(o) ==
  IF WeightedOptions(o)
  THEN LL_constructor(TRUE, o.maxWeight.num, Infinity)
  ELSE LL_constructor(FALSE, Infinity, CountSizeOf(o))

TS_new(o) ==
  IF WeightedOptions(o)
  THEN TS_constructor(TRUE, o.maxWeight.num, Infinity)
  ELSE TS_constructor(FALSE, Infinity, CountSizeOf(o))

\* Options that construct a cache with the fields of c.
OptionsFor(c) ==
  [ calculateItemWeight |-> c.isWeightedMode,
    maxWeight |-> IF c.isWeightedMode THEN Num(c.maxWeight) ELSE NumNull,
    maxSize   |-> IF c.isWeightedMode THEN NumNull ELSE Num(c.maxSize) ]

\* No request handler is in flight.
NoHandlers == <<>>

\* The requests a client may have in the rate limiter at a time, and the
\* requests of the client that are followed.
MaxInFlight == 2

MaxRequests == 3

\* if (count >= 100)
RateLimit == 100

\* A request that has no operation on RATE_LIMITER_KV under way and whose
\* route is not waiting for the check.  pc: "get" while its KV get is
\* awaited, "put" while the put it did not await is on its way; api: the path
\* starts with /api/; count: the count it read; verdict: "wait" while the
\* route awaits rateLimitPromise and the check has not returned, "true" or
\* "false" once the check has returned that value and the route has not yet
\* resumed, "none" otherwise; known: the request has a CF-Connecting-IP.
NoRequest ==
  [pc |-> "none", api |-> FALSE, count |-> 0, verdict |-> "none",
   known |-> FALSE]

\* The rate limiter of one client IP in one minute, after n requests served
\* one after the other: the value under the key rate_limit:<ip>:<minute>
\* (kv), the requests with a KV operation under way or a route waiting for
\* the check (requests), how many requests have come in since (arrived), how
\* many /api/ requests of the client went on to their handler (admitted) or
\* were answered with 429 (refused), and how many /api/ requests without a
\* client IP went on to their handler (unknown).
RateAfter(n) ==
  [kv |-> IF n = 0 THEN NumNull ELSE Num(n),
   requests |-> [i \in 1..MaxInFlight |-> NoRequest],
   arrived |-> 0,
   admitted |-> n,
   refused |-> 0,
   unknown |-> 0]

\* The rate limiter before any request.
RateInit == RateAfter(0)

\* ------------------------------------------------------------- list actions

WeightInRange(w) == w >= 0 - MaxDrift /\ w <= Cardinality(Keys) * MaxWeight

listVars == <<list, listCall, listScen, listOrder>>

tsVars == <<ts, tsCall, tsScen>>

legacyVars == <<legacy, legacyCall>>

\* The conversation of the request being served and the key derived from it,
\* the worker's bindings, the KV namespace, the sendToAI call that ran last
\* and the calls that wait at an await meanwhile.
chatVars == <<messages, cacheKey, env, kv, req, waiting, calls>>

\* The options the cache was constructed with, the request handlers in
\* flight with the one that is running, and the rate limiter's requests.
workerVars == <<options, handlers, running, rate>>

\* A has that refreshes the key's position as get does.
LLHas_refreshes(key) ==
  /\ impl = "list"
  /\ listCall' = Call("has", key, <<>>, LL_has(list, key), <<>>)
  /\ list' = LL_collect(LL_get([list EXCEPT !.threw = FALSE], key))
  /\ UNCHANGED <<impl, workerVars, chatVars, listScen, listOrder, tsVars, legacyVars, now>>

LLHas(key) ==
  /\ impl = "list"
  /\ listCall' = Call("has", key, <<>>, LL_has(list, key), <<>>)
  /\ list' = [list EXCEPT !.threw = FALSE]
  /\ UNCHANGED <<impl, workerVars, chatVars, listScen, listOrder, tsVars, legacyVars, now>>

LLGet(key) ==
  /\ impl = "list"
  /\ LET c0 == [list EXCEPT !.threw = FALSE]
         c1 == LL_collect(LL_get(c0, key))
     IN /\ list' = c1
        /\ listCall' = Call("get", key, <<>>, LL_getFound(c0, key), LL_getResult(c0, key))
        /\ listScen' = ScenGet(listScen, key, c0.maxSize)
        /\ listOrder' = Touch(listOrder, key, DOMAIN c1.cache)
  /\ UNCHANGED <<impl, workerVars, chatVars, tsVars, legacyVars, now>>

LLSet(key, value) ==
  /\ impl = "list"
  /\ LET c0 == [list EXCEPT !.threw = FALSE]
         c1 == LL_collect(LL_set(c0, key, value))
     IN /\ WeightInRange(c1.currentWeight)
        /\ Len(c1.nodes) <= MaxNodes
        /\ list' = c1
        /\ listCall' = Call("set", key, value, FALSE, <<>>)
        /\ listScen' = ScenWrite(listScen, key, value, LL_getResult(c0, key), c0.maxSize)
        /\ listOrder' = Touch(listOrder, key, DOMAIN c1.cache)
  /\ UNCHANGED <<impl, workerVars, chatVars, tsVars, legacyVars, now>>

LLClear ==
  /\ impl = "list"
  /\ list' = LL_collect(LL_clear([list EXCEPT !.threw = FALSE]))
  /\ listCall' = Call("clear", <<>>, <<>>, FALSE, <<>>)
  /\ listScen' = ScenInit
  /\ listOrder' = <<>>
  /\ UNCHANGED <<impl, workerVars, chatVars, tsVars, legacyVars, now>>

NextList(K) ==
  \/ \E key \in K : LLHas(key)
  \/ \E key \in K : LLGet(key)
  \/ \E key \in K, value \in ValuesFor(list.isWeightedMode) : LLSet(key, value)
  \/ LLClear

\* -------------------------------------------------------- timestamp actions

\* Date.now() does not decrease: when a call reads it, it has advanced by
\* some d >= 0 since the last call (0 when both fall into the same
\* millisecond).
Ticks == {0, 1}

\* The code only compares timestamps with each other (and with Infinity), so
\* a cache behaves the same under any order-preserving renaming of the time
\* axis.  After each call the stored timestamps and the clock are renamed to
\* their ranks, which keeps them small without stopping the clock; an advance
\* of 1 then stands for any positive advance.
Rank(T, t) == Cardinality({u \in T : u < t})

Stamps(m) == {m[i][2] : i \in 1..Len(m)}

Rebase(m, t) ==
  LET T == Stamps(m) \cup {t}
  IN [i \in 1..Len(m) |-> <<m[i][1], Rank(T, m[i][2])>>]

RebaseClock(m, t) == Rank(Stamps(m) \cup {t}, t)

Rebased(c, t) == [c EXCEPT !.keyTimestamps = Rebase(c.keyTimestamps, t)]

TSHas(key) ==
  /\ impl = "ts"
  /\ tsCall' = Call("has", key, <<>>, TS_has(ts, key), <<>>)
  /\ UNCHANGED <<impl, workerVars, chatVars, ts, tsScen, listVars, legacyVars, now>>

TSGet(key, d) ==
  /\ impl = "ts"
  /\ LET c1 == TS_get(ts, key, now + d)
     IN /\ ts' = Rebased(c1, now + d)
        /\ now' = RebaseClock(c1.keyTimestamps, now + d)
  /\ tsCall' = Call("get", key, <<>>, TS_getFound(ts, key), TS_getResult(ts, key))
  /\ tsScen' = ScenGet(tsScen, key, ts.maxSize)
  /\ UNCHANGED <<impl, workerVars, chatVars, listVars, legacyVars>>

TSSet(key, value, d) ==
  /\ impl = "ts"
  /\ LET c1 == TS_set(ts, key, value, now + d)
     IN /\ ts' = Rebased(c1, now + d)
        /\ now' = RebaseClock(c1.keyTimestamps, now + d)
  /\ tsCall' = Call("set", key, value, FALSE, <<>>)
  /\ tsScen' = ScenWrite(tsScen, key, value, TS_getResult(ts, key), ts.maxSize)
  /\ UNCHANGED <<impl, workerVars, chatVars, listVars, legacyVars>>

TSClear ==
  /\ impl = "ts"
  /\ ts' = TS_clear(ts)
  /\ now' = RebaseClock(<<>>, now)
  /\ tsCall' = Call("clear", <<>>, <<>>, FALSE, <<>>)
  /\ tsScen' = ScenInit
  /\ UNCHANGED <<impl, workerVars, chatVars, listVars, legacyVars>>

\* evictOneLRU() called on the cache object from outside set: the method is
\* public, reads no clock, and returns whether it evicted an entry.
TSEvictOneLRU ==
  /\ impl = "ts"
  /\ LET c1 == TS_evictOneLRU(ts)
     IN /\ ts' = Rebased(c1, now)
        /\ now' = RebaseClock(c1.keyTimestamps, now)
  /\ tsCall' = Call("evictOneLRU", <<>>, <<>>, TS_evictOneLRUResult(ts), <<>>)
  /\ tsScen' = ScenOff
  /\ UNCHANGED <<impl, workerVars, chatVars, listVars, legacyVars>>

NextTs(K) ==
  \/ \E key \in K : TSHas(key)
  \/ \E key \in K, d \in Ticks : TSGet(key, d)
  \/ \E key \in K, value \in ValuesFor(ts.isWeightedMode), d \in Ticks :
        TSSet(key, value, d)
  \/ TSEvictOneLRU
  \/ TSClear

\* ----------------------------------------------------------- legacy actions

LGHas(key) ==
  /\ impl = "legacy"
  /\ legacyCall' = Call("has", key, <<>>, LG_has(legacy, key), <<>>)
  /\ UNCHANGED <<impl, workerVars, chatVars, legacy, listVars, tsVars, now>>

LGGet(key, d) ==
  /\ impl = "legacy"
  /\ LET c1 == LG_get(legacy, key, now + d)
     IN /\ legacy' = Rebased(c1, now + d)
        /\ now' = RebaseClock(c1.keyTimestamps, now + d)
  /\ legacyCall' = Call("get", key, <<>>, LG_getFound(legacy, key),
                        LG_getResult(legacy, key))
  /\ UNCHANGED <<impl, workerVars, chatVars, listVars, tsVars>>

LGSet(key, value, d) ==
  /\ impl = "legacy"
  /\ LET c1 == LG_set(legacy, key, value, now + d)
     IN /\ legacy' = Rebased(c1, now + d)
        /\ now' = RebaseClock(c1.keyTimestamps, now + d)
  /\ legacyCall' = Call("set", key, value, FALSE, <<>>)
  /\ UNCHANGED <<impl, workerVars, chatVars, listVars, tsVars>>

LGClear ==
  /\ impl = "legacy"
  /\ legacy' = LG_clear(legacy)
  /\ now' = RebaseClock(<<>>, now)
  /\ legacyCall' = Call("clear", <<>>, <<>>, FALSE, <<>>)
  /\ UNCHANGED <<impl, workerVars, chatVars, listVars, tsVars>>

\* evictLRU() called on the cache object from outside set: the method is
\* public, reads no clock, and returns nothing.
LGEvictLRU ==
  /\ impl = "legacy"
  /\ LET c1 == LG_evictLRU(legacy)
     IN /\ legacy' = Rebased(c1, now)
        /\ now' = RebaseClock(c1.keyTimestamps, now)
  /\ legacyCall' = Call("evictLRU", <<>>, <<>>, FALSE, <<>>)
  /\ UNCHANGED <<impl, workerVars, chatVars, listVars, tsVars>>

NextLegacy(K) ==
  \/ \E key \in K : LGHas(key)
  \/ \E key \in K, d \in Ticks : LGGet(key, d)
  \/ \E key \in K, value \in ValuesFor(FALSE), d \in Ticks : LGSet(key, value, d)
  \/ LGEvictLRU
  \/ LGClear

\* ------------------------------------------------------------ specifications

vars == <<impl, list, listCall, listScen, listOrder, ts, tsCall, tsScen,
          legacy, legacyCall, now, messages, cacheKey, env, kv, req, waiting,
          calls, options, handlers, running, rate>>

\* One cache object is constructed, of one of the classes in impls, in weight
\* mode or in count mode; the other classes' objects are never called.
Init(impls, weighted) ==
  /\ impl \in impls
  /\ list \in IF impl # "list" THEN {LL_constructor(TRUE, MaxWeight, Infinity)}
              ELSE IF weighted THEN {LL_constructor(TRUE, MaxWeight, Infinity)}
              ELSE {LL_constructor(FALSE, Infinity, n) : n \in 1..MaxSize}
  /\ ts \in IF impl # "ts" THEN {TS_constructor(TRUE, MaxWeight, Infinity)}
            ELSE IF weighted THEN {TS_constructor(TRUE, MaxWeight, Infinity)}
            ELSE {TS_constructor(FALSE, Infinity, n) : n \in 1..MaxSize}
  /\ legacy \in IF impl # "legacy" THEN {LG_constructor(MaxSize)}
                ELSE {LG_constructor(n) : n \in 1..MaxSize}
  /\ listCall = Call("new", <<>>, <<>>, FALSE, <<>>)
  /\ tsCall = Call("new", <<>>, <<>>, FALSE, <<>>)
  /\ legacyCall = Call("new", <<>>, <<>>, FALSE, <<>>)
  /\ listScen = ScenInit
  /\ tsScen = ScenInit
  /\ listOrder = <<>>
  /\ now = 0
  /\ messages = <<>>
  /\ cacheKey = NoKey
  /\ env = [AI |-> TRUE, KV |-> FALSE]
  /\ kv = EmptyMap
  /\ req = ReqIdle
  /\ waiting = <<>>
  /\ calls = 0
  /\ options = (IF impl = "list" THEN OptionsFor(list) ELSE OptionsFor(ts))
  /\ handlers = NoHandlers
  /\ running = 0
  /\ rate = RateInit

\* The linked-list cache in count mode, and in weight mode.
SpecListCount == Init({"list"}, FALSE) /\ [][NextList(Keys)]_vars

SpecListWeight == Init({"list"}, TRUE) /\ [][NextList(TwoKeys)]_vars

\* The timestamp-based cache in count mode, and in weight mode.
SpecTsCount == Init({"ts"}, FALSE) /\ [][NextTs(KeysWithEmpty)]_vars

SpecTsWeight == Init({"ts"}, TRUE) /\ [][NextTs(ThreeKeys)]_vars

\* The legacy cache.
SpecLegacy == Init({"legacy"}, FALSE) /\ [][NextLegacy(KeysWithEmpty)]_vars

\* Every count-bounded timestamp cache: lru-handler.js in count mode and the
\* legacy class.
SpecStampCount ==
  Init({"ts", "legacy"}, FALSE)
  /\ [][NextTs(KeysWithEmpty) \/ NextLegacy(KeysWithEmpty)]_vars

\* Either LRUCache class in count mode, called with non-empty keys only.
SpecCountNonEmpty ==
  Init({"list", "ts"}, FALSE)
  /\ [][NextList(NonEmptyKeys) \/ NextTs(NonEmptyKeys)]_vars

\* The timestamp-based cache in count mode, called with non-empty keys only.
SpecTsCountNonEmpty == Init({"ts"}, FALSE) /\ [][NextTs(NonEmptyKeys)]_vars

\* Either LRUCache class in weight mode.
SpecWeight ==
  Init({"list", "ts"}, TRUE) /\ [][NextList(TwoKeys) \/ NextTs(ThreeKeys)]_vars

\* ======================================================================
\* Claims
\* ======================================================================

Size(c) == Cardinality(DOMAIN c.cache)

LL_sumOfWeights(c) ==
  SumOver([k \in DOMAIN c.cache |-> c.nodes[c.cache[k]].weight], DOMAIN c.cache)

TS_sumOfWeights(c) ==
  SumOver([k \in DOMAIN c.cache |-> c.cache[k].weight], DOMAIN c.cache)

\* C1: linked-list cache, weight mode: currentWeight equals the sum of the
\* weight fields of the entries resident in the Map, after any calls.
C1_ListWeightIsSum ==
  (impl = "list" /\ list.isWeightedMode)
    => list.currentWeight = LL_sumOfWeights(list)

\* C2: linked-list cache, weight mode: currentWeight never exceeds maxWeight,
\* sets that replace a resident key's value by a heavier one included.
C2_ListWeightWithinMax ==
  (impl = "list" /\ list.isWeightedMode)
    => list.currentWeight <= list.maxWeight

\* C3: timestamp-based cache, weight mode: currentWeight equals the sum of
\* the resident entries' weights and never exceeds maxWeight, after any
\* has/get/set/clear calls.
C3_TsWeightInvariant ==
  (impl = "ts" /\ ts.isWeightedMode)
    => /\ ts.currentWeight = TS_sumOfWeights(ts)
       /\ ts.currentWeight <= ts.maxWeight

\* C3 witness: a set has just replaced a resident key's value while another
\* entry is resident, and the cache is filled to maxWeight exactly.
C3_Witness ==
  /\ impl = "ts" /\ ts.isWeightedMode
  /\ tsCall.op = "set"
  /\ ~tsScen.ok
  /\ Size(ts) >= 2
  /\ ts.currentWeight = ts.maxWeight
  /\ \E k \in DOMAIN ts.cache : ts.cache[k].weight = 1

\* C4: linked-list cache, count mode, maxSize >= 1: the number of resident
\* entries never exceeds maxSize.
C4_ListCountWithinMax ==
  (impl = "list" /\ ~list.isWeightedMode) => Size(list) <= list.maxSize

\* C4 witness: more distinct keys have been set than the cache holds, and
\* the cache is full.
C4_Witness ==
  /\ impl = "list" /\ ~list.isWeightedMode
  /\ listScen.ok /\ Len(listScen.keys) = list.maxSize + 1
  /\ Size(list) = list.maxSize

\* C5: timestamp-based caches in count mode (lru-handler.js without a weight
\* function, and the legacy class): the number of resident entries never
\* exceeds maxSize, the empty-string key included.
C5_StampCountWithinMax ==
  /\ (impl = "ts" /\ ~ts.isWeightedMode) => Size(ts) <= ts.maxSize
  /\ impl = "legacy" => Size(legacy) <= legacy.maxSize

\* C6: weight mode, both classes: right after set(key, value) with a weight
\* within maxWeight returns, has(key) is true and get(key) returns value; and
\* no has or get removes an entry (only a later set or clear does).
C6_AfterSet(kind, c, call, hasKey, getValue) ==
  /\ (impl = kind /\ call.op = "set"
        /\ calculateItemWeight(call.value) <= c.maxWeight)
       => (hasKey /\ getValue = call.value)

C6_SetThenResident ==
  [][ /\ C6_AfterSet("list", list', listCall', LL_has(list', listCall'.key),
                     LL_getResult(list', listCall'.key))
      /\ C6_AfterSet("ts", ts', tsCall', TS_has(ts', tsCall'.key),
                     TS_getResult(ts', tsCall'.key))
      /\ (impl = "list" /\ listCall'.op \in {"has", "get"})
           => DOMAIN list'.cache = DOMAIN list.cache
      /\ (impl = "ts" /\ tsCall'.op \in {"has", "get"})
           => DOMAIN ts'.cache = DOMAIN ts.cache ]_vars

\* The keys a scenario has inserted, from the i-th on.
ScenKeysFrom(s, i) == {s.keys[j] : j \in i..Len(s.keys)}

\* C7: count mode, both classes, capacity N: after N+1 sets with pairwise
\* distinct non-empty keys on an empty cache and no get in between, the
\* first-inserted key is not resident and the other N keys are.
C7_Fill(s, c) ==
  (s.ok /\ ~s.read /\ ~s.updated /\ Len(s.keys) = c.maxSize + 1)
    => DOMAIN c.cache = ScenKeysFrom(s, 2)

C7_LruCorrectness ==
  /\ (impl = "list" /\ ~list.isWeightedMode) => C7_Fill(listScen, list)
  /\ (impl = "ts" /\ ~ts.isWeightedMode) => C7_Fill(tsScen, ts)

\* C7 witness: the timestamp-based cache of the largest capacity has taken
\* its N+1 sets, the last two in the same millisecond.
C7_Witness ==
  /\ impl = "ts" /\ ~ts.isWeightedMode /\ ts.maxSize = MaxSize
  /\ tsScen.ok /\ ~tsScen.read /\ ~tsScen.updated
  /\ Len(tsScen.keys) = ts.maxSize + 1
  /\ \E i, j \in 1..Len(ts.keyTimestamps) :
        i # j /\ ts.keyTimestamps[i][2] = ts.keyTimestamps[j][2]

\* C8: linked-list cache, count mode, capacity N >= 2: after N sets with
\* distinct keys, a get of the oldest key and one more set with a new key, the
\* second-oldest key is the one evicted; and every entry a set evicts is the
\* resident entry whose last get or set is the earliest.
C8_ReadThenFill(s, c) ==
  (s.ok /\ s.read /\ Len(s.keys) = c.maxSize + 1 /\ c.maxSize >= 2)
    => DOMAIN c.cache = ScenKeysFrom(s, 1) \ {s.keys[2]}

C8_ListRecencyRefresh ==
  [][ (impl = "list" /\ ~list.isWeightedMode)
        => /\ C8_ReadThenFill(listScen', list')
           /\ listCall'.op = "set"
                => \A k \in (DOMAIN list.cache) \ (DOMAIN list'.cache) :
                      k = listOrder[1] ]_vars

\* C8 witness: the scenario has run to its end in a cache of capacity >= 2.
C8_Witness ==
  /\ impl = "list" /\ ~list.isWeightedMode /\ list.maxSize >= 2
  /\ listScen.ok /\ listScen.read /\ Len(listScen.keys) = list.maxSize + 1

\* C9: timestamp-based cache, count mode, capacity N >= 2, non-empty keys:
\* the same scenario evicts the second-oldest key and keeps the key that was
\* read, for every non-decreasing clock, equal values included.
C9_TsRecencyRefresh ==
  (impl = "ts" /\ ~ts.isWeightedMode) => C8_ReadThenFill(tsScen, ts)

\* The keys in the order in which the list cache would evict them: from tail
\* along prev, as far as the nodes are the Map's nodes.
RECURSIVE LL_walkFromTail(_, _, _)
LL_walkFromTail(c, node, fuel) ==
  IF node = Null \/ fuel = 0 THEN <<>>
  ELSE LET k == c.nodes[node].key
           rest == LL_walkFromTail(c, c.nodes[node].prev, fuel - 1)
       IN IF k \in DOMAIN c.cache /\ c.cache[k] = node THEN <<k>> \o rest ELSE rest

LL_evictionOrder(c) == LL_walkFromTail(c, c.tail, Len(c.nodes))

\* The keys in the order in which repeated scans for the oldest timestamp
\* would find them.
RECURSIVE TS_evictionOrder(_)
TS_evictionOrder(m) ==
  IF Len(m) = 0 THEN <<>>
  ELSE LET k == ScanOldest(m, 1, JsNull, Infinity).str
       IN <<k>> \o TS_evictionOrder(OMapDelete(m, k))

\* C10: weight mode, both classes: set(key, v) with weight(v) > maxWeight
\* raises no error and stores nothing; afterwards has(key) is false, every
\* other resident entry keeps its value, weight and relative eviction order,
\* and currentWeight has decreased by exactly the removed entry's weight.
C10_ListOversized ==
  (impl = "list" /\ list.isWeightedMode /\ listCall'.op = "set"
     /\ calculateItemWeight(listCall'.value) > list.maxWeight)
    => LET key == listCall'.key
           old == IF key \in DOMAIN list.cache
                  THEN list.nodes[list.cache[key]].weight ELSE 0
       IN /\ ~list'.threw
          /\ ~LL_has(list', key)
          /\ DOMAIN list'.cache = (DOMAIN list.cache) \ {key}
          /\ \A k \in DOMAIN list'.cache :
                /\ LL_getResult(list', k) = LL_getResult(list, k)
                /\ list'.nodes[list'.cache[k]].weight = list.nodes[list.cache[k]].weight
          /\ LL_evictionOrder(list') = RemoveFromSeq(key, LL_evictionOrder(list))
          /\ list'.currentWeight = list.currentWeight - old

C10_TsOversized ==
  (impl = "ts" /\ ts.isWeightedMode /\ tsCall'.op = "set"
     /\ TS_calculateItemWeight(tsCall'.value) > ts.maxWeight)
    => LET key == tsCall'.key
           old == IF key \in DOMAIN ts.cache THEN ts.cache[key].weight ELSE 0
       IN /\ ~TS_has(ts', key)
          /\ DOMAIN ts'.cache = (DOMAIN ts.cache) \ {key}
          /\ \A k \in DOMAIN ts'.cache : ts'.cache[k] = ts.cache[k]
          /\ TS_evictionOrder(ts'.keyTimestamps)
               = RemoveFromSeq(key, TS_evictionOrder(ts.keyTimestamps))
          /\ ts'.currentWeight = ts.currentWeight - old

C10_OversizedRefusal == [][C10_ListOversized /\ C10_TsOversized]_vars

\* C11: linked-list cache with a total, non-negative weight function: from
\* every state reachable by has/get/set/clear calls, no further has, get, set
\* or clear call ends in an exception.
C11_ListNeverThrows == impl = "list" => ~list.threw

\* The keys of the nodes met from head along next.
RECURSIVE LL_walkFromHead(_, _, _)
LL_walkFromHead(c, node, fuel) ==
  IF node = Null \/ fuel = 0 THEN <<>>
  ELSE <<c.nodes[node].key>> \o LL_walkFromHead(c, c.nodes[node].next, fuel - 1)

LL_keysFromHead(c) == LL_walkFromHead(c, c.head, Len(c.nodes))

Occurrences(x, s) == Cardinality({i \in 1..Len(s) : s[i] = x})

\* C12: both LRUCache classes: set(key, v) on a resident key, when the cache
\* holds at most maxSize entries (count mode) or currentWeight - oldWeight(key)
\* + weight(v) <= maxWeight (weight mode), evicts nothing: the set of resident
\* keys is unchanged, the key occurs exactly once in the ordering, and
\* get(key) returns v.
C12_ListUpdate ==
  LET key == listCall'.key
      v == listCall'.value
  IN (/\ impl = "list" /\ listCall'.op = "set" /\ LL_has(list, key)
      /\ IF list.isWeightedMode
         THEN list.currentWeight - list.nodes[list.cache[key]].weight
                + calculateItemWeight(v) <= list.maxWeight
         ELSE Size(list) <= list.maxSize)
     => /\ DOMAIN list'.cache = DOMAIN list.cache
        /\ Occurrences(key, LL_keysFromHead(list')) = 1
        /\ LL_getFound(list', key) /\ LL_getResult(list', key) = v

C12_TsUpdate ==
  LET key == tsCall'.key
      v == tsCall'.value
  IN (/\ impl = "ts" /\ tsCall'.op = "set" /\ TS_has(ts, key)
      /\ IF ts.isWeightedMode
         THEN ts.currentWeight - ts.cache[key].weight
                + TS_calculateItemWeight(v) <= ts.maxWeight
         ELSE Size(ts) <= ts.maxSize)
     => /\ DOMAIN ts'.cache = DOMAIN ts.cache
        /\ Occurrences(key, [i \in 1..Len(ts'.keyTimestamps) |->
                               ts'.keyTimestamps[i][1]]) = 1
        /\ TS_getFound(ts', key) /\ TS_getResult(ts', key) = v

C12_UpdateInPlace == [][C12_ListUpdate /\ C12_TsUpdate]_vars

\* C13: clear(), both LRUCache classes, from any reachable state: it leaves
\* no resident entry, currentWeight 0 and an empty ordering; on a cache with
\* no resident entry it changes neither the entries, nor currentWeight, nor
\* the ordering; a second clear changes nothing more; and the cache it leaves
\* is the freshly constructed cache of the same configuration, so every later
\* sequence of calls behaves as on a new cache.
C13_ListClear ==
  (impl = "list" /\ listCall'.op = "clear")
    => /\ Size(list') = 0 /\ list'.currentWeight = 0
       /\ list'.head = Null /\ list'.tail = Null
       /\ LL_evictionOrder(list') = <<>>
       /\ Size(list) = 0
            => /\ list'.currentWeight = list.currentWeight
               /\ LL_evictionOrder(list') = LL_evictionOrder(list)
       /\ LL_collect(LL_clear(list')) = list'
       /\ list' = LL_constructor(list.isWeightedMode, list.maxWeight, list.maxSize)

C13_TsClear ==
  (impl = "ts" /\ tsCall'.op = "clear")
    => /\ Size(ts') = 0 /\ ts'.currentWeight = 0
       /\ ts'.keyTimestamps = <<>>
       /\ Size(ts) = 0
            => /\ ts'.currentWeight = ts.currentWeight
               /\ ts'.keyTimestamps = ts.keyTimestamps
       /\ TS_clear(ts') = ts'
       /\ ts' = TS_constructor(ts.isWeightedMode, ts.maxWeight, ts.maxSize)

C13_Clear == [][C13_ListClear /\ C13_TsClear]_vars

\* ======================================================================
\* The cache-stats read (src/unnamed/part_000, src/src/index.js)
\* ======================================================================

\* JSON.stringify of a number: Infinity is written as null.
JsonNumber(n) == IF n = Infinity THEN [isNull |-> TRUE, num |-> 0]
                 ELSE [isNull |-> FALSE, num |-> n]

\* The body of the GET /api/cache-stats response for the cache c.
cacheStats(c) ==
  [memoryCache |-> [size |-> Size(c), maxSize |-> JsonNumber(c.maxSize)]]

LLStats ==
  /\ impl = "list"
  /\ listCall' = Call("stats", <<>>, <<>>, FALSE, <<>>)
  /\ list' = [list EXCEPT !.threw = FALSE]
  /\ UNCHANGED <<impl, workerVars, chatVars, listScen, listOrder, tsVars, legacyVars, now>>

TSStats ==
  /\ impl = "ts"
  /\ tsCall' = Call("stats", <<>>, <<>>, FALSE, <<>>)
  /\ UNCHANGED <<impl, workerVars, chatVars, ts, tsScen, listVars, legacyVars, now>>

LGStats ==
  /\ impl = "legacy"
  /\ legacyCall' = Call("stats", <<>>, <<>>, FALSE, <<>>)
  /\ UNCHANGED <<impl, workerVars, chatVars, legacy, listVars, tsVars, now>>

\* Every LRUCache class, in count mode or in weight mode, with the stats read
\* among the calls.
NextObserve ==
  \/ NextList(IF list.isWeightedMode THEN TwoKeys ELSE Keys)
  \/ LLStats
  \/ NextTs(IF ts.isWeightedMode THEN ThreeKeys ELSE KeysWithEmpty)
  \/ TSStats
  \/ NextLegacy(KeysWithEmpty)
  \/ LGStats

SpecObserve ==
  (\E weighted \in BOOLEAN : Init({"list", "ts", "legacy"}, weighted))
  /\ [][NextObserve]_vars

\* C14: every LRUCache class: has(key) and the cache-stats read change
\* neither the resident entries, nor currentWeight, nor the eviction order
\* (linked-list positions, stored timestamps), so that every later set leaves
\* the same keys resident whether or not has or the stats read was called.
C14_ListPure ==
  (impl = "list" /\ listCall'.op \in {"has", "stats"})
    => /\ list'.cache = list.cache
       /\ list'.nodes = list.nodes
       /\ list'.head = list.head /\ list'.tail = list.tail
       /\ list'.currentWeight = list.currentWeight
       /\ \A k \in Keys, v \in ValuesFor(list.isWeightedMode) :
            DOMAIN LL_set(list', k, v).cache
              = DOMAIN LL_set([list EXCEPT !.threw = FALSE], k, v).cache

C14_TsPure ==
  (impl = "ts" /\ tsCall'.op \in {"has", "stats"})
    => /\ ts' = ts
       /\ now' = now
       /\ \A k \in Keys, v \in ValuesFor(ts.isWeightedMode), d \in Ticks :
            DOMAIN TS_set(ts', k, v, now' + d).cache
              = DOMAIN TS_set(ts, k, v, now + d).cache

C14_LegacyPure ==
  (impl = "legacy" /\ legacyCall'.op \in {"has", "stats"})
    => /\ legacy' = legacy
       /\ now' = now
       /\ \A k \in Keys, v \in ValuesFor(FALSE), d \in Ticks :
            DOMAIN LG_set(legacy', k, v, now' + d).cache
              = DOMAIN LG_set(legacy, k, v, now + d).cache

C14_PureObservations == [][C14_ListPure /\ C14_TsPure /\ C14_LegacyPure]_vars

\* C14 witness: has has just been called for the least recently used of
\* several resident keys of the linked-list cache, the one the next eviction
\* takes.
C14_Witness ==
  /\ impl = "list" /\ listCall.op = "has" /\ listCall.found
  /\ Size(list) >= 2
  /\ list.tail # Null /\ list.nodes[list.tail].key = listCall.key
  /\ list.head # list.tail

\* C14 witness of the stats read: it has just been made on a timestamp-based
\* cache in weight mode that holds entries.
C14_StatsWitness ==
  /\ impl = "ts" /\ ts.isWeightedMode /\ tsCall.op = "stats"
  /\ Size(ts) >= 2 /\ ts.currentWeight > 0

\* C15: every LRUCache class: get(key) for a key that is not resident
\* returns null, does not throw, and leaves the entries, currentWeight and
\* the eviction order (list positions, stored timestamps) as they were.
C15_ListMiss ==
  (impl = "list" /\ listCall'.op = "get" /\ ~LL_has(list, listCall'.key))
    => /\ ~listCall'.found /\ listCall'.out = <<>>
       /\ ~list'.threw
       /\ list' = [list EXCEPT !.threw = FALSE]

C15_TsMiss ==
  (impl = "ts" /\ tsCall'.op = "get" /\ ~TS_has(ts, tsCall'.key))
    => /\ ~tsCall'.found /\ tsCall'.out = <<>>
       /\ ts' = ts

C15_LegacyMiss ==
  (impl = "legacy" /\ legacyCall'.op = "get" /\ ~LG_has(legacy, legacyCall'.key))
    => /\ ~legacyCall'.found /\ legacyCall'.out = <<>>
       /\ legacy' = legacy

C15_GetMiss == [][C15_ListMiss /\ C15_TsMiss /\ C15_LegacyMiss]_vars

\* C15 witness: a get has just missed in a timestamp-based cache in weight
\* mode that holds entries, later than every stored timestamp.
C15_Witness ==
  /\ impl = "ts" /\ ts.isWeightedMode
  /\ tsCall.op = "get" /\ ~tsCall.found
  /\ Size(ts) >= 2
  /\ \A i \in 1..Len(ts.keyTimestamps) : ts.keyTimestamps[i][2] < now

\* ======================================================================
\* Key derivation as the request handler uses it
\* ======================================================================

\* Longest conversation a request carries.
MaxTurns == 4

\* Role and content texts: the empty string, an ordinary character and the
\* two characters the key format uses as separators.
Roles == {<<>>, <<"u">>, <<":">>}

Contents == {<<>>, <<":">>, <<"|">>}

Turns == [role : Roles, content : Contents]

TurnSeqs == UNION {[1..n -> Turns] : n \in 0..MaxTurns}

\* A request arrives with any conversation; no cache is involved.
InitKey ==
  /\ impl = "key"
  /\ list = LL_constructor(TRUE, MaxWeight, Infinity)
  /\ ts = TS_constructor(TRUE, MaxWeight, Infinity)
  /\ legacy = LG_constructor(MaxSize)
  /\ listCall = Call("new", <<>>, <<>>, FALSE, <<>>)
  /\ tsCall = Call("new", <<>>, <<>>, FALSE, <<>>)
  /\ legacyCall = Call("new", <<>>, <<>>, FALSE, <<>>)
  /\ listScen = ScenInit
  /\ tsScen = ScenInit
  /\ listOrder = <<>>
  /\ now = 0
  /\ messages \in TurnSeqs
  /\ cacheKey = NoKey
  /\ env = [AI |-> TRUE, KV |-> FALSE]
  /\ kv = EmptyMap
  /\ req = ReqIdle
  /\ waiting = <<>>
  /\ calls = 0
  /\ options = (IF impl = "list" THEN OptionsFor(list) ELSE OptionsFor(ts))
  /\ handlers = NoHandlers
  /\ running = 0
  /\ rate = RateInit

\* LRUCache.generateKey(messages) of part_002.
LLGenerateKey ==
  /\ impl = "key"
  /\ cacheKey' = [cacheKey EXCEPT !.loop = JsStr(LL_generateKey(messages))]
  /\ UNCHANGED <<impl, workerVars, messages, env, kv, req, waiting, calls, listVars,
                 tsVars, legacyVars, now>>

\* LRUCache.generateKey(messages) of lru-handler.js and index.js.
TSGenerateKey ==
  /\ impl = "key"
  /\ cacheKey' = [cacheKey EXCEPT !.slice = JsStr(TS_generateKey(messages))]
  /\ UNCHANGED <<impl, workerVars, messages, env, kv, req, waiting, calls, listVars,
                 tsVars, legacyVars, now>>

NextKey == LLGenerateKey \/ TSGenerateKey

SpecKey == InitKey /\ [][NextKey]_vars

Min(a, b) == IF a <= b THEN a ELSE b

\* The last min(n, length) turns of a conversation.
LastTurns(msgs, n) ==
  SubSeq(msgs, Len(msgs) - Min(n, Len(msgs)) + 1, Len(msgs))

\* "<role>:<content>" of the turns of w, in order, joined by "|".
RECURSIVE WindowKey(_)
WindowKey(w) ==
  IF Len(w) = 0 THEN <<>>
  ELSE LET last == w[Len(w)]
           front == SubSeq(w, 1, Len(w) - 1)
           text == last.role \o <<":">> \o last.content
       IN IF Len(front) = 0 THEN text ELSE WindowKey(front) \o <<"|">> \o text

\* C16: generateKey(turns) is "<role>:<content>" of the last min(3, length)
\* turns, in order, joined by "|"; no turns give the empty string; turns
\* before the last three do not change the key; and the loop version
\* (part_002) and the slice/map version (lru-handler.js) return the same key.
C16_GenerateKey ==
  /\ ~cacheKey.loop.isNull
       => /\ cacheKey.loop.str = WindowKey(LastTurns(messages, 3))
          /\ Len(messages) = 0 => cacheKey.loop.str = <<>>
          /\ cacheKey.loop.str = LL_generateKey(LastTurns(messages, 3))
          /\ \A t \in Turns :
               Len(messages) >= 3
                 => LL_generateKey(<<t>> \o messages) = cacheKey.loop.str
  /\ ~cacheKey.slice.isNull
       => /\ cacheKey.slice.str = WindowKey(LastTurns(messages, 3))
          /\ Len(messages) = 0 => cacheKey.slice.str = <<>>
          /\ cacheKey.slice.str = TS_generateKey(LastTurns(messages, 3))
          /\ \A t \in Turns :
               Len(messages) >= 3
                 => TS_generateKey(<<t>> \o messages) = cacheKey.slice.str
  /\ (~cacheKey.loop.isNull /\ ~cacheKey.slice.isNull)
       => cacheKey.loop = cacheKey.slice

\* C16 witness: both versions have derived the key of a conversation of more
\* than three turns whose first turn differs from all the later ones.
C16_Witness ==
  /\ ~cacheKey.loop.isNull /\ ~cacheKey.slice.isNull
  /\ Len(messages) > 3
  /\ \A i \in 2..Len(messages) : messages[i] # messages[1]
  /\ Len(cacheKey.slice.str) > 5

\* C17: two conversations whose last-three windows differ (in the number of
\* turns, or in the role or content of a turn, ':' and '|' allowed in both)
\* have different keys.
C17_KeyInjective ==
  (~cacheKey.loop.isNull /\ ~cacheKey.slice.isNull)
    => \A other \in TurnSeqs :
         LastTurns(other, 3) # LastTurns(messages, 3)
           => /\ LL_generateKey(other) # cacheKey.loop.str
              /\ TS_generateKey(other) # cacheKey.slice.str

\* C18: the GET /api/cache-stats response for memoryCache reports the
\* resident count and the capacity fields of the cache's mode: for the
\* weighted memoryCache currentWeight (the cache's currentWeight at that
\* moment) and maxWeight, and no maxSize; maxSize for a count-mode cache.
C18_StatsFields ==
  LET body == cacheStats(ts).memoryCache IN
  (impl = "ts" /\ tsCall.op = "stats")
    => /\ "size" \in DOMAIN body /\ body.size = Size(ts)
       /\ IF ts.isWeightedMode
          THEN /\ "currentWeight" \in DOMAIN body
               /\ body.currentWeight = JsonNumber(ts.currentWeight)
               /\ "maxWeight" \in DOMAIN body
               /\ body.maxWeight = JsonNumber(ts.maxWeight)
               /\ "maxSize" \notin DOMAIN body
          ELSE /\ "maxSize" \in DOMAIN body
               /\ body.maxSize = JsonNumber(ts.maxSize)

\* The smallest number of entries to take from the front of order (resident
\* keys, least recently used first) so that the weights of the others and w
\* together are within maxWeight.
RECURSIVE FitEvictions(_, _, _, _)
FitEvictions(order, weightOf, w, maxWeight) ==
  IF Len(order) = 0
     \/ SumOver(weightOf, {order[i] : i \in 1..Len(order)}) + w <= maxWeight
  THEN 0
  ELSE 1 + FitEvictions(Tail(order), weightOf, w, maxWeight)

\* What set(key, v) of weight w on a non-resident key is to leave behind.
FitsAfter(order, weightOf, key, w, maxWeight, residentAfter, weightAfter) ==
  LET j == FitEvictions(order, weightOf, w, maxWeight)
      kept == {order[i] : i \in (j + 1)..Len(order)}
  IN /\ residentAfter = kept \cup {key}
     /\ weightAfter = SumOver(weightOf, kept) + w

\* The keys of a timestamp Map whose stamps are pairwise distinct, oldest
\* stamp first.
TS_byStamp(m) ==
  [i \in 1..Len(m) |->
     LET e == CHOOSE x \in 1..Len(m) : Rank(Stamps(m), m[x][2]) = i - 1
     IN m[e][1]]

TS_distinctStamps(m) == Cardinality(Stamps(m)) = Len(m)

\* C20: weight mode: set(key, v) for a non-resident key with weight w <=
\* maxWeight evicts exactly the j least recently used entries, j the smallest
\* number for which the remaining weight plus w is within maxWeight, keeps
\* every fresher entry and stores the new one (linked list: always;
\* timestamp-based cache: non-empty keys and pairwise distinct timestamps, as
\* a strictly increasing clock gives them).
C20_ListFit ==
  (/\ impl = "list" /\ list.isWeightedMode /\ listCall'.op = "set"
   /\ ~LL_has(list, listCall'.key)
   /\ calculateItemWeight(listCall'.value) <= list.maxWeight)
    => FitsAfter(listOrder,
                 [k \in DOMAIN list.cache |-> list.nodes[list.cache[k]].weight],
                 listCall'.key, calculateItemWeight(listCall'.value),
                 list.maxWeight, DOMAIN list'.cache, list'.currentWeight)

C20_TsFit ==
  (/\ impl = "ts" /\ ts.isWeightedMode /\ tsCall'.op = "set"
   /\ ~TS_has(ts, tsCall'.key)
   /\ tsCall'.key # <<>> /\ <<>> \notin DOMAIN ts.cache
   /\ TS_distinctStamps(ts.keyTimestamps)
   /\ TS_calculateItemWeight(tsCall'.value) <= ts.maxWeight)
    => FitsAfter(TS_byStamp(ts.keyTimestamps),
                 [k \in DOMAIN ts.cache |-> ts.cache[k].weight],
                 tsCall'.key, TS_calculateItemWeight(tsCall'.value),
                 ts.maxWeight, DOMAIN ts'.cache, ts'.currentWeight)

C20_EvictionToFit == [][C20_ListFit /\ C20_TsFit]_vars

\* ======================================================================
\* sendToAI and its caches (src/unnamed/part_000)
\* ======================================================================

SystemRole == <<"s">>

UserRole == <<"u">>

AssistantRole == <<"a">>

\* The messages arrays the chat handler builds: the system prompt, the
\* history of the request body (which the handler does not validate) and
\* the user's message.  In the second one the system prompt lies outside
\* the key's window, and the history's first turn is a user turn whose text,
\* trimmed and in lower case, is the text of the key's window after its
\* first five characters 'wiki:'.
ChatInputs ==
  { << [role |-> SystemRole, content |-> <<"p">>],
       [role |-> UserRole, content |-> <<"q">>] >>,
    << [role |-> SystemRole, content |-> <<"p">>],
       [role |-> UserRole,
        content |-> <<" ", "X", "|", "a", ":", "r", "|", "u", ":", "q">>],
       [role |-> <<"wiki">>, content |-> <<"x">>],
       [role |-> AssistantRole, content |-> <<"r">>],
       [role |-> UserRole, content |-> <<"q">>] >> }

\* The sendToAI calls that can be in flight at a time, and the calls a
\* worker serves before it is started anew.
MaxChats == 2

MaxCalls == 2

\* Response texts of the model after clean-up: the empty text, texts that
\* fit into memoryCache beside another entry or alone, and a text heavier
\* than maxWeight.
Responses == {Str("x", n) : n \in 0..(MaxWeight + 1)}

\* The texts sendToAI returns instead of a response.
NotConfigured == <<"Sorry, the AI service is not properly configured.">>

Trouble == <<"Sorry, I had trouble processing your request. Error: ...">>

\* JSON.stringify and JSON.parse of a string without quotes or backslashes.
JsonStringify(s) == <<"\"">> \o s \o <<"\"">>

JsonParse(raw) == SubSeq(raw, 2, Len(raw) - 1)

\* kvCache.get(key) of initializeKVCache: env.KV.get gives raw (null when the
\* key is absent or the read fails, which the wrapper catches).
kvCacheGet(raw) == IF JsTruthy(raw) THEN JsStr(JsonParse(raw.str)) ELSE JsNull

\* queryWikipedia's cache key for the messages of a sendToAI call that looks
\* up Wikipedia: the query is the content of the first message with role
\* 'user' (messages.find), and the key is 'wiki:' followed by the query
\* without white space at its ends and in lower case.
WikiKey(msgs) ==
  LET users == {i \in 1..Len(msgs) : msgs[i].role = UserRole}
      lastUserMessage == msgs[CHOOSE i \in users : \A j \in users : i <= j]
      query == lastUserMessage.content
      inner == {i \in 1..Len(query) : query[i] # " "}
      trim == IF inner = {} THEN <<>>
              ELSE SubSeq(query,
                          CHOOSE i \in inner : \A j \in inner : i <= j,
                          CHOOSE i \in inner : \A j \in inner : i >= j)
      upper == <<"P", "Q", "R", "X", "Y", "Z">>
      lower == <<"p", "q", "r", "x", "y", "z">>
      toLowerCase(c) == IF \E n \in 1..Len(upper) : upper[n] = c
                        THEN lower[CHOOSE n \in 1..Len(upper) : upper[n] = c]
                        ELSE c
  IN <<"wiki", ":">> \o [i \in 1..Len(trim) |-> toLowerCase(trim[i])]

\* The results queryWikipedia caches: the object for the article Q and the
\* object for a search without results.

WikiFound ==
  Obj(<< "{", "\"", "s", "u", "c", "c", "e", "s", "s", "\"", ":", "t", "r", "u",
     "e", ",", "\"", "t", "i", "t", "l", "e", "\"", ":", "\"", "Q", "\"",
     ",", "\"", "c", "o", "n", "t", "e", "n", "t", "\"", ":", "\"", "A", "n",
     " ", "a", "r", "t", "i", "c", "l", "e", ".", "\"", ",", "\"", "u", "r",
     "l", "\"", ":", "\"", "h", "t", "t", "p", "s", ":", "/", "/", "e", "n",
     ".", "w", "i", "k", "i", "p", "e", "d", "i", "a", ".", "o", "r", "g",
     "/", "w", "i", "k", "i", "/", "Q", "\"", "}" >>)

WikiNone ==
  Obj(<< "{", "\"", "s", "u", "c", "c", "e", "s", "s", "\"", ":", "f", "a", "l",
     "s", "e", ",", "\"", "m", "e", "s", "s", "a", "g", "e", "\"", ":", "\"",
     "N", "o", " ", "W", "i", "k", "i", "p", "e", "d", "i", "a", " ", "a",
     "r", "t", "i", "c", "l", "e", "s", " ", "f", "o", "u", "n", "d", " ",
     "f", "o", "r", " ", "t", "h", "i", "s", " ", "q", "u", "e", "r", "y",
     ".", "\"", "}" >>)

\* messages.findIndex(m => m.role === 'system'), 0 for -1.
SystemIndex(msgs) ==
  IF \E i \in 1..Len(msgs) : msgs[i].role = SystemRole
  THEN CHOOSE i \in 1..Len(msgs) :
         /\ msgs[i].role = SystemRole
         /\ \A j \in 1..(i - 1) : msgs[j].role # SystemRole
  ELSE 0

\* The Wikipedia text put into the system message, or in a new one in front.
AddWikipedia(msgs) ==
  IF SystemIndex(msgs) # 0
  THEN [msgs EXCEPT ![SystemIndex(msgs)].content = @ \o <<"W">>]
  ELSE <<[role |-> SystemRole, content |-> <<"W">>]>> \o msgs

\* The instruction against repetition appended to the system message.
AddInstruction(msgs) ==
  IF SystemIndex(msgs) # 0
  THEN [msgs EXCEPT ![SystemIndex(msgs)].content = @ \o <<"!">>]
  ELSE msgs

Event(op, key, value) == [op |-> op, key |-> key, value |-> value]

\* memoryCache.get and memoryCache.set as sendToAI makes them, at clock value
\* now + d (the history of scenarios is not kept for the worker's calls).
MemGet(key, d) ==
  /\ LET c1 == TS_get(ts, key, now + d)
     IN /\ ts' = Rebased(c1, now + d)
        /\ now' = RebaseClock(c1.keyTimestamps, now + d)
  /\ tsCall' = Call("get", key, <<>>, TS_getFound(ts, key), TS_getResult(ts, key))
  /\ tsScen' = ScenOff

MemSet(key, value, d) ==
  /\ LET c1 == TS_set(ts, key, value, now + d)
     IN /\ ts' = Rebased(c1, now + d)
        /\ now' = RebaseClock(c1.keyTimestamps, now + d)
  /\ tsCall' = Call("set", key, value, FALSE, <<>>)
  /\ tsScen' = ScenOff

\* The sendToAI call that ran last, and whether a call waits at an await.
Current == [messages |-> messages, cacheKey |-> cacheKey, req |-> req]

InFlight(r) == r.pc \notin {"idle", "done"}

\* The call whose await returns: the one that ran last (0) or one of those
\* that wait meanwhile; and the calls that wait once it runs.
Chat(i) == IF i = 0 THEN Current ELSE waiting[i]

WaitingAfter(i) ==
  IF i = 0 THEN waiting
  ELSE IF InFlight(req) THEN [waiting EXCEPT ![i] = Current]
  ELSE SubSeq(waiting, 1, i - 1) \o SubSeq(waiting, i + 1, Len(waiting))

\* sendToAI after the Wikipedia look-up: its text is put into the messages,
\* the instruction is added and env.AI.run is called and awaited.
SendToAI_fromInstruction(msgs, r, success) ==
  /\ messages' = AddInstruction(IF success THEN AddWikipedia(msgs) ELSE msgs)
  /\ req' = [r EXCEPT !.pc = "aiRun", !.wikiSuccess = success]

\* queryWikipedia returns its result (success: it is an article); sendToAI,
\* which awaits the call, has not resumed yet.
QueryWikipediaEnds(msgs, r, success) ==
  /\ messages' = msgs
  /\ req' = [r EXCEPT !.pc = "wikiReturn", !.wikiSuccess = success]

\* sendToAI from the Wikipedia look-up on, up to its next await.  use: the
\* messages hold a user message and shouldUseWikipedia says yes to it;
\* lastCall: the last call made on memoryCache so far.  queryWikipedia
\* returns the cached result when there is one and else awaits its search;
\* sendToAI awaits queryWikipedia in either case.
SendToAI_fromWikipedia(msgs, r, lastCall, use, d) ==
  IF ~use
  THEN /\ SendToAI_fromInstruction(msgs, r, FALSE)
       /\ tsCall' = lastCall
       /\ UNCHANGED <<ts, tsScen, now>>
  ELSE IF TS_has(ts, WikiKey(msgs))
  THEN /\ MemGet(WikiKey(msgs), d)
       /\ QueryWikipediaEnds(msgs, r, TS_getResult(ts, WikiKey(msgs)) = WikiFound)
  ELSE /\ messages' = msgs
       /\ req' = [r EXCEPT !.pc = "wikiSearch"]
       /\ tsCall' = Call("has", WikiKey(msgs), <<>>, FALSE, <<>>)
       /\ UNCHANGED <<ts, tsScen, now>>

\* sendToAI(messages, env) is called, while no other call is in flight or
\* while the others wait at their awaits, and runs up to its first await or
\* return.
SendToAI(msgs, use, d) ==
  /\ impl = "ts"
  /\ InFlight(req) => Len(waiting) < MaxChats - 1
  /\ calls < MaxCalls
  /\ calls' = calls + 1
  /\ use => \E i \in 1..Len(msgs) : msgs[i].role = UserRole
  /\ waiting' = IF InFlight(req) THEN Append(waiting, Current) ELSE waiting
  /\ LET key == TS_generateKey(msgs)
         had == IF TS_has(ts, key) THEN JsStr(TS_getResult(ts, key)) ELSE JsNull
         has == Event("memoryCache.has", key, <<>>)
     IN IF ~env.AI
        THEN /\ req' = [ReqIdle EXCEPT !.pc = "done",
                                       !.reply = JsStr(NotConfigured),
                                       !.memHad = had]
             /\ messages' = msgs
             /\ cacheKey' = NoKey
             /\ UNCHANGED <<ts, tsCall, tsScen, now>>
        ELSE /\ cacheKey' = [loop |-> JsNull, slice |-> JsStr(key)]
             /\ IF TS_has(ts, key)
                THEN /\ MemGet(key, d)
                     /\ messages' = msgs
                     /\ req' = [ReqIdle EXCEPT
                                  !.pc = "done",
                                  !.events = << has,
                                                Event("memoryCache.get", key, <<>>) >>,
                                  !.reply = JsStr(TS_getResult(ts, key)),
                                  !.memHad = had]
                ELSE IF env.KV
                THEN /\ req' = [ReqIdle EXCEPT !.pc = "kvGet", !.events = <<has>>]
                     /\ messages' = msgs
                     /\ tsCall' = Call("has", key, <<>>, FALSE, <<>>)
                     /\ UNCHANGED <<ts, tsScen, now>>
                ELSE SendToAI_fromWikipedia(
                       msgs, [ReqIdle EXCEPT !.events = <<has>>],
                       Call("has", key, <<>>, FALSE, <<>>), use, d)
  /\ UNCHANGED <<impl, workerVars, env, kv, listVars, legacyVars>>

\* await kvCache.get(cacheKey) returns, and sendToAI runs on: a value is
\* copied into memoryCache and returned, without one the call goes on to the
\* Wikipedia look-up.
KvGetReturns(i, fails, use, d) ==
  /\ impl = "ts"
  /\ i \in 0..Len(waiting)
  /\ Chat(i).req.pc = "kvGet"
  /\ use => \E j \in 1..Len(Chat(i).messages) : Chat(i).messages[j].role = UserRole
  /\ waiting' = WaitingAfter(i)
  /\ cacheKey' = Chat(i).cacheKey
  /\ LET key == Chat(i).cacheKey.slice.str
         raw == IF fails \/ key \notin DOMAIN kv THEN JsNull ELSE JsStr(kv[key])
         kvCacheResult == kvCacheGet(raw)
         r == [Chat(i).req EXCEPT !.events = Append(@, Event("KV.get", key, <<>>)),
                                  !.kvGot = raw]
     IN IF JsTruthy(kvCacheResult)
        THEN /\ MemSet(key, kvCacheResult.str, d)
             /\ messages' = Chat(i).messages
             /\ req' = [r EXCEPT
                          !.pc = "done",
                          !.events = Append(@, Event("memoryCache.set", key,
                                                     kvCacheResult.str)),
                          !.reply = kvCacheResult]
        ELSE SendToAI_fromWikipedia(Chat(i).messages, r, tsCall, use, d)
  /\ UNCHANGED <<impl, workerVars, env, kv, calls, listVars, legacyVars>>

\* queryWikipedia's search (await fetch, await json) returns.  outcome:
\* "none": no article, which is cached and returned; "results": the first
\* article's content is fetched; "error": the fetch or the json failed, the
\* catch block returns a failure that is not cached.
WikiSearchReturns(i, outcome, d) ==
  /\ impl = "ts"
  /\ i \in 0..Len(waiting)
  /\ Chat(i).req.pc = "wikiSearch"
  /\ waiting' = WaitingAfter(i)
  /\ cacheKey' = Chat(i).cacheKey
  /\ LET r == Chat(i).req
         msgs == Chat(i).messages
     IN CASE outcome = "none" ->
               /\ MemSet(WikiKey(msgs), WikiNone, d)
               /\ QueryWikipediaEnds(
                    msgs,
                    [r EXCEPT !.events = Append(@, Event("memoryCache.set",
                                                         WikiKey(msgs), WikiNone))],
                    FALSE)
          [] outcome = "results" ->
               /\ messages' = msgs
               /\ req' = [r EXCEPT !.pc = "wikiContent"]
               /\ UNCHANGED <<ts, tsCall, tsScen, now>>
          [] outcome = "error" ->
               /\ QueryWikipediaEnds(msgs, r, FALSE)
               /\ UNCHANGED <<ts, tsCall, tsScen, now>>
  /\ UNCHANGED <<impl, workerVars, env, kv, calls, listVars, legacyVars>>

\* queryWikipedia's fetch of the article (await fetch, await json) returns:
\* the result is cached and returned, or the fetch failed and the catch
\* block returns a failure that is not cached.
WikiContentReturns(i, fails, d) ==
  /\ impl = "ts"
  /\ i \in 0..Len(waiting)
  /\ Chat(i).req.pc = "wikiContent"
  /\ waiting' = WaitingAfter(i)
  /\ cacheKey' = Chat(i).cacheKey
  /\ LET r == Chat(i).req
         msgs == Chat(i).messages
     IN IF fails
        THEN /\ QueryWikipediaEnds(msgs, r, FALSE)
             /\ UNCHANGED <<ts, tsCall, tsScen, now>>
        ELSE /\ MemSet(WikiKey(msgs), WikiFound, d)
             /\ QueryWikipediaEnds(
                  msgs,
                  [r EXCEPT !.events = Append(@, Event("memoryCache.set",
                                                       WikiKey(msgs), WikiFound))],
                  TRUE)
  /\ UNCHANGED <<impl, workerVars, env, kv, calls, listVars, legacyVars>>

\* wikipediaInfo = await queryWikipedia(...) resumes sendToAI with the
\* result, and sendToAI runs on to its await of env.AI.run.
QueryWikipediaReturns(i) ==
  /\ impl = "ts"
  /\ i \in 0..Len(waiting)
  /\ Chat(i).req.pc = "wikiReturn"
  /\ waiting' = WaitingAfter(i)
  /\ cacheKey' = Chat(i).cacheKey
  /\ SendToAI_fromInstruction(Chat(i).messages, Chat(i).req,
                              Chat(i).req.wikiSuccess)
  /\ UNCHANGED <<impl, workerVars, env, kv, calls, listVars, legacyVars, tsVars, now>>

\* await env.AI.run(...) throws, and sendToAI returns its apology.
AiRunThrows(i) ==
  /\ impl = "ts"
  /\ i \in 0..Len(waiting)
  /\ Chat(i).req.pc = "aiRun"
  /\ waiting' = WaitingAfter(i)
  /\ cacheKey' = Chat(i).cacheKey
  /\ messages' = Chat(i).messages
  /\ req' = [Chat(i).req EXCEPT
               !.pc = "done",
               !.events = Append(@, Event("AI.run", <<>>, <<>>)),
               !.reply = JsStr(Trouble)]
  /\ UNCHANGED <<impl, workerVars, env, kv, calls, listVars, legacyVars, tsVars, now>>

\* await env.AI.run(...) returns, and sendToAI stores the response text
\* (which ends with the source line after a successful Wikipedia look-up,
\* and so is not empty).
AiRunReturns(i, responseText, d) ==
  /\ impl = "ts"
  /\ i \in 0..Len(waiting)
  /\ Chat(i).req.pc = "aiRun"
  /\ Chat(i).req.wikiSuccess => responseText # <<>>
  /\ waiting' = WaitingAfter(i)
  /\ cacheKey' = Chat(i).cacheKey
  /\ messages' = Chat(i).messages
  /\ LET key == Chat(i).cacheKey.slice.str
     IN /\ MemSet(key, responseText, d)
        /\ req' = [Chat(i).req EXCEPT
                     !.pc = IF env.KV THEN "kvPut" ELSE "done",
                     !.events = @ \o
                                  << Event("AI.run", <<>>, <<>>),
                                     Event("memoryCache.set", key, responseText) >>,
                     !.reply = IF env.KV THEN JsNull ELSE JsStr(responseText),
                     !.aiText = JsStr(responseText)]
  /\ UNCHANGED <<impl, workerVars, env, kv, calls, listVars, legacyVars>>

\* await kvCache.set(cacheKey, responseText) returns (the wrapper catches a
\* failed put), and sendToAI returns the response text.
KvPutReturns(i, fails) ==
  /\ impl = "ts"
  /\ i \in 0..Len(waiting)
  /\ Chat(i).req.pc = "kvPut"
  /\ waiting' = WaitingAfter(i)
  /\ cacheKey' = Chat(i).cacheKey
  /\ messages' = Chat(i).messages
  /\ LET key == Chat(i).cacheKey.slice.str
         r == Chat(i).req
     IN /\ kv' = IF fails THEN kv
                 ELSE MapSet(kv, key, JsonStringify(r.aiText.str))
        /\ req' = [r EXCEPT
                     !.pc = "done",
                     !.events = Append(@, Event("KV.put", key, r.aiText.str)),
                     !.reply = r.aiText]
  /\ UNCHANGED <<impl, workerVars, env, calls, listVars, legacyVars, tsVars, now>>

\* A KV entry reaches its expirationTtl.
KvExpires(key) ==
  /\ impl = "ts"
  /\ key \in DOMAIN kv
  /\ kv' = MapDelete(kv, key)
  /\ UNCHANGED <<impl, workerVars, messages, cacheKey, env, req, waiting, calls,
                 listVars, legacyVars, tsVars, now>>

\* The worker is started anew between two requests: the module's
\* memoryCache is constructed again and no call has been made, the KV
\* namespace keeps its entries.
WorkerRestart ==
  /\ impl = "ts"
  /\ ~InFlight(req)
  /\ waiting = <<>>
  /\ calls > 0
  /\ ts' = TS_constructor(ts.isWeightedMode, ts.maxWeight, ts.maxSize)
  /\ tsCall' = Call("new", <<>>, <<>>, FALSE, <<>>)
  /\ tsScen' = ScenInit
  /\ now' = RebaseClock(<<>>, now)
  /\ messages' = <<>>
  /\ cacheKey' = NoKey
  /\ req' = ReqIdle
  /\ calls' = 0
  /\ UNCHANGED <<impl, workerVars, env, kv, waiting, listVars, legacyVars>>

NextChat ==
  \/ \E msgs \in ChatInputs, use \in BOOLEAN, d \in Ticks : SendToAI(msgs, use, d)
  \/ \E i \in 0..Len(waiting), fails \in BOOLEAN, use \in BOOLEAN, d \in Ticks :
        KvGetReturns(i, fails, use, d)
  \/ \E i \in 0..Len(waiting), outcome \in {"none", "results", "error"}, d \in Ticks :
        WikiSearchReturns(i, outcome, d)
  \/ \E i \in 0..Len(waiting), fails \in BOOLEAN, d \in Ticks :
        WikiContentReturns(i, fails, d)
  \/ \E i \in 0..Len(waiting) : QueryWikipediaReturns(i)
  \/ \E i \in 0..Len(waiting) : AiRunThrows(i)
  \/ \E i \in 0..Len(waiting), responseText \in Responses, d \in Ticks :
        AiRunReturns(i, responseText, d)
  \/ \E i \in 0..Len(waiting), fails \in BOOLEAN : KvPutReturns(i, fails)
  \/ \E key \in DOMAIN kv : KvExpires(key)
  \/ WorkerRestart

\* The worker with its weighted memoryCache (lru-handler.js), deployed with
\* or without the AI and KV bindings, serving chat requests that overlap at
\* their awaits.
InitChat ==
  /\ impl = "ts"
  /\ list = LL_constructor(TRUE, MaxWeight, Infinity)
  /\ ts = TS_constructor(TRUE, MaxWeight, Infinity)
  /\ legacy = LG_constructor(MaxSize)
  /\ listCall = Call("new", <<>>, <<>>, FALSE, <<>>)
  /\ tsCall = Call("new", <<>>, <<>>, FALSE, <<>>)
  /\ legacyCall = Call("new", <<>>, <<>>, FALSE, <<>>)
  /\ listScen = ScenInit
  /\ tsScen = ScenInit
  /\ listOrder = <<>>
  /\ now = 0
  /\ messages = <<>>
  /\ cacheKey = NoKey
  /\ env \in [AI : BOOLEAN, KV : BOOLEAN]
  /\ kv = EmptyMap
  /\ req = ReqIdle
  /\ waiting = <<>>
  /\ calls = 0
  /\ options = OptionsFor(ts)
  /\ handlers = NoHandlers
  /\ running = 0
  /\ rate = RateInit

SpecChat == InitChat /\ [][NextChat]_vars

\* ----------------------------------------------------------------------
\* C19
\* ----------------------------------------------------------------------

HasOp(events, op) == \E i \in 1..Len(events) : events[i].op = op

OpAt(events, op) == CHOOSE i \in 1..Len(events) : events[i].op = op

\* A call of sendToAI has returned.
C19_Returned == impl = "ts" /\ req.pc = "done"

\* The key was in memoryCache at entry: the cached response is returned and
\* neither KV nor the model is asked.
C19_MemoryHit ==
  ~req.memHad.isNull =>
    /\ req.reply = req.memHad
    /\ ~HasOp(req.events, "KV.get")
    /\ ~HasOp(req.events, "AI.run")

\* KV is read only when env.KV is bound and memoryCache missed; when the read
\* finds a value, the value is copied into memoryCache under the key and
\* returned, and the model is not called.
C19_KvHit ==
  /\ HasOp(req.events, "KV.get") =>
       /\ env.KV
       /\ req.memHad.isNull
       /\ req.events[1].op = "memoryCache.has"
  /\ ~req.kvGot.isNull =>
       /\ \E i \in 1..Len(req.events) :
            req.events[i] = Event("memoryCache.set", cacheKey.slice.str,
                                  JsonParse(req.kvGot.str))
       /\ ~HasOp(req.events, "AI.run")
       /\ req.reply = JsStr(JsonParse(req.kvGot.str))

\* The model is called only after memoryCache missed and, with env.KV bound,
\* KV was read and held no value.
C19_ModelLast ==
  HasOp(req.events, "AI.run") =>
    /\ req.memHad.isNull
    /\ req.kvGot.isNull
    /\ req.events[1].op = "memoryCache.has"
    /\ env.KV => /\ HasOp(req.events, "KV.get")
                 /\ OpAt(req.events, "KV.get") < OpAt(req.events, "AI.run")

\* The model's response is stored in memoryCache and, with env.KV bound, in
\* KV, under the key computed at entry.
C19_Stored ==
  ~req.aiText.isNull =>
    /\ HasOp(req.events, "AI.run")
    /\ \E i \in 1..Len(req.events) :
         /\ req.events[i] = Event("memoryCache.set", cacheKey.slice.str,
                                  req.aiText.str)
         /\ OpAt(req.events, "AI.run") < i
    /\ env.KV => \E i \in 1..Len(req.events) :
                   /\ req.events[i] = Event("KV.put", cacheKey.slice.str,
                                            req.aiText.str)
                   /\ OpAt(req.events, "AI.run") < i
    /\ req.reply = req.aiText

\* C19: sendToAI consults the caches in a fixed order.  A response resident in
\* memoryCache under the key is returned without asking KV or the model;
\* otherwise, with env.KV bound, a value that KV holds under the key is copied
\* into memoryCache and returned without calling the model; only when both
\* miss is the model called, and its response is stored in memoryCache and,
\* with env.KV bound, in KV, under the key computed at entry.
C19_CacheOrder ==
  C19_Returned =>
    /\ C19_MemoryHit
    /\ C19_KvHit
    /\ C19_ModelLast
    /\ C19_Stored

\* The same with a KV hit taken to be a value that is not the empty text.
C19_NonEmptyKvValue ==
  (C19_Returned /\ (req.kvGot.isNull \/ JsonParse(req.kvGot.str) # <<>>)) =>
    /\ C19_MemoryHit
    /\ C19_KvHit
    /\ C19_ModelLast
    /\ C19_Stored

\* A KV hit has been served into a memoryCache that had lost the key.
C19_KvHitServed ==
  /\ C19_Returned
  /\ ~req.kvGot.isNull
  /\ JsonParse(req.kvGot.str) # <<>>
  /\ req.reply = JsStr(JsonParse(req.kvGot.str))

\* ----------------------------------------------------------------------
\* C21
\* ----------------------------------------------------------------------

\* Key sets without the empty string.
TwoNonEmptyKeys == {KeySeq[2], KeySeq[3]}

ThreeNonEmptyKeys == {KeySeq[2], KeySeq[3], KeySeq[4]}

\* Either LRUCache class in weight mode, called with non-empty keys only.
SpecWeightNonEmpty ==
  Init({"list", "ts"}, TRUE)
  /\ [][NextList(TwoNonEmptyKeys) \/ NextTs(ThreeNonEmptyKeys)]_vars

\* Every resident entry weighs more than 0 (an entry of weight 0 is never in
\* the way of a new one, and set leaves it alone).
LL_allPositive(c) == \A k \in DOMAIN c.cache : c.nodes[c.cache[k]].weight > 0

TS_allPositive(c) == \A k \in DOMAIN c.cache : c.cache[k].weight > 0

C21_ListExactFit ==
  (impl = "list" /\ list.isWeightedMode /\ listCall'.op = "set"
     /\ LL_allPositive(list)
     /\ calculateItemWeight(listCall'.value) = list.maxWeight)
    => /\ ~list'.threw
       /\ DOMAIN list'.cache = {listCall'.key}
       /\ LL_getResult(list', listCall'.key) = listCall'.value
       /\ list'.currentWeight = list.maxWeight

C21_TsExactFit ==
  (impl = "ts" /\ ts.isWeightedMode /\ tsCall'.op = "set"
     /\ TS_allPositive(ts)
     /\ TS_calculateItemWeight(tsCall'.value) = ts.maxWeight)
    => /\ DOMAIN ts'.cache = {tsCall'.key}
       /\ TS_getResult(ts', tsCall'.key) = tsCall'.value
       /\ ts'.currentWeight = ts.maxWeight

\* C21: weight mode, both classes, non-empty keys: a set of a value whose
\* weight equals maxWeight exactly, from any reachable state whose resident
\* entries all weigh more than 0, ends (without an exception) with the new
\* entry as the only resident entry and currentWeight equal to maxWeight.
C21_ExactFitAdmitted == [][C21_ListExactFit /\ C21_TsExactFit]_vars

\* The part of C21 that lru-handler.js is responsible for.
C21_TsExactFitAdmitted == [][C21_TsExactFit]_vars

\* ----------------------------------------------------------------------
\* C22
\* ----------------------------------------------------------------------

\* After N distinct keys, a set of the oldest key with a new value and one
\* more distinct key: the second-oldest key is gone, the other keys are
\* resident and the updated key holds the new value.
C22_UpdateThenFill(s, c, valueOfFirst) ==
  (s.ok /\ s.updated /\ Len(s.keys) = c.maxSize + 1 /\ c.maxSize >= 2)
    => /\ DOMAIN c.cache = ScenKeysFrom(s, 1) \ {s.keys[2]}
       /\ valueOfFirst = s.value

\* C22: count mode, capacity N >= 2, non-empty keys, any non-decreasing clock,
\* both classes: after N sets with distinct keys, a set of the oldest key with
\* a new value and one more set with a new key, the second-oldest key is the
\* one evicted and the updated key is resident with the new value.
C22_SetRefreshesRecency ==
  /\ (impl = "list" /\ ~list.isWeightedMode)
       => C22_UpdateThenFill(listScen, list, LL_getResult(list, listScen.keys[1]))
  /\ (impl = "ts" /\ ~ts.isWeightedMode)
       => C22_UpdateThenFill(tsScen, ts, TS_getResult(ts, tsScen.keys[1]))

\* C22 witness: the timestamp-based cache of the largest capacity has run the
\* scenario to its end with the update in the same millisecond as another
\* key's insertion; and so has the linked-list cache (C22_ListWitness).
C22_Witness ==
  /\ impl = "ts" /\ ~ts.isWeightedMode /\ ts.maxSize = MaxSize /\ ts.maxSize >= 2
  /\ tsScen.ok /\ tsScen.updated /\ Len(tsScen.keys) = ts.maxSize + 1
  /\ \E i, j \in 1..Len(ts.keyTimestamps) :
        /\ i # j
        /\ ts.keyTimestamps[i][1] = tsScen.keys[1]
        /\ ts.keyTimestamps[i][2] = ts.keyTimestamps[j][2]

C22_ListWitness ==
  /\ impl = "list" /\ ~list.isWeightedMode /\ list.maxSize >= 2
  /\ listScen.ok /\ listScen.updated /\ Len(listScen.keys) = list.maxSize + 1

\* ----------------------------------------------------------------------
\* C23
\* ----------------------------------------------------------------------

\* C23: legacy cache: a set on a resident key, made when the cache holds
\* maxSize entries, replaces that key's value and evicts no entry: the
\* resident keys are the same before and after the call.
C23_LegacyUpdateKeepsKeys ==
  [][ (impl = "legacy" /\ legacyCall'.op = "set"
         /\ Size(legacy) = legacy.maxSize
         /\ LG_has(legacy, legacyCall'.key))
        => /\ DOMAIN legacy'.cache = DOMAIN legacy.cache
           /\ LG_getResult(legacy', legacyCall'.key) = legacyCall'.value ]_vars

\* ----------------------------------------------------------------------
\* C24
\* ----------------------------------------------------------------------

\* The nodes met from node along next.
RECURSIVE LL_nodesFrom(_, _, _)
LL_nodesFrom(c, node, fuel) ==
  IF node = Null \/ fuel = 0 THEN <<>>
  ELSE <<node>> \o LL_nodesFrom(c, c.nodes[node].next, fuel - 1)

LL_nodesFromHead(c) == LL_nodesFrom(c, c.head, Len(c.nodes) + 1)

\* The list from head is exactly the Map's entries, each once, and ends at
\* tail; head and tail are null exactly when the Map is empty.
LL_wellFormed(c) ==
  LET walk == LL_nodesFromHead(c) IN
  /\ Len(walk) = Cardinality(DOMAIN c.cache)
  /\ {walk[i] : i \in 1..Len(walk)} = {c.cache[k] : k \in DOMAIN c.cache}
  /\ \A k \in DOMAIN c.cache : c.nodes[c.cache[k]].key = k
  /\ c.head # Null => c.nodes[c.head].prev = Null
  /\ c.tail # Null => c.nodes[c.tail].next = Null
  /\ c.tail = (IF walk = <<>> THEN Null ELSE walk[Len(walk)])
  /\ (c.head = Null) = (c.tail = Null)
  /\ (c.head = Null) = (DOMAIN c.cache = {})

\* C24: linked-list cache, both modes, after any has/get/set/clear calls: the
\* nodes reachable from head along next are exactly the Map's entries, each
\* once; head.prev and tail.next are null; tail is the last node reachable
\* from head; head is null exactly when tail is null exactly when the Map is
\* empty.
C24_ListWellFormed == impl = "list" => LL_wellFormed(list)

\* ----------------------------------------------------------------------
\* C25
\* ----------------------------------------------------------------------

\* The timestamp-based caches: lru-handler.js in either mode and the legacy
\* class, called with the empty string and two other keys.
SpecStamp ==
  (\E weighted \in BOOLEAN : Init({"ts", "legacy"}, weighted))
  /\ [][NextTs(ThreeKeys) \/ NextLegacy(ThreeKeys)]_vars

\* C25: timestamp-based caches (lru-handler.js in both modes, the legacy
\* class): after any has/get/set/clear calls the keys of the cache Map are the
\* keys of the keyTimestamps Map.
C25_StampKeysMatch ==
  /\ impl = "ts" => DOMAIN ts.cache = OMapKeys(ts.keyTimestamps)
  /\ impl = "legacy" => DOMAIN legacy.cache = OMapKeys(legacy.keyTimestamps)

\* C25 witness: a set has just evicted an entry (the key it stored is
\* resident and a key that was set before is not).
C25_Witness ==
  /\ impl = "ts" /\ ts.isWeightedMode
  /\ tsCall.op = "set" /\ TS_has(ts, tsCall.key)
  /\ ~tsScen.ok
  /\ ts.currentWeight = ts.maxWeight
  /\ Size(ts) = 1

\* ----------------------------------------------------------------------
\* C26
\* ----------------------------------------------------------------------

\* The options objects a cache is constructed with: with or without a weight
\* function, maxWeight and maxSize absent, 0 or positive.
OptionSet ==
  [ calculateItemWeight : BOOLEAN,
    maxWeight : {NumNull, Num(0), Num(MaxWeight)},
    maxSize   : {NumNull, Num(0), Num(MaxSize)} ]

\* new LRUCache(options) of part_002 or lru-handler.js.
InitOptions ==
  /\ impl \in {"list", "ts"}
  /\ options \in OptionSet
  /\ list = (IF impl = "list" THEN LL_new(options)
             ELSE LL_constructor(TRUE, MaxWeight, Infinity))
  /\ ts = (IF impl = "ts" THEN TS_new(options)
           ELSE TS_constructor(TRUE, MaxWeight, Infinity))
  /\ legacy = LG_constructor(MaxSize)
  /\ listCall = Call("new", <<>>, <<>>, FALSE, <<>>)
  /\ tsCall = Call("new", <<>>, <<>>, FALSE, <<>>)
  /\ legacyCall = Call("new", <<>>, <<>>, FALSE, <<>>)
  /\ listScen = ScenInit
  /\ tsScen = ScenInit
  /\ listOrder = <<>>
  /\ now = 0
  /\ messages = <<>>
  /\ cacheKey = NoKey
  /\ env = [AI |-> TRUE, KV |-> FALSE]
  /\ kv = EmptyMap
  /\ req = ReqIdle
  /\ waiting = <<>>
  /\ calls = 0
  /\ handlers = NoHandlers
  /\ running = 0
  /\ rate = RateInit

\* A cache constructed from any options and then called (the linked-list
\* cache in weight mode with one key, whose updates and oversized values
\* already take it through its corrupted structures).
SpecOptions ==
  InitOptions
  /\ [][ \/ NextList(IF list.isWeightedMode THEN {KeySeq[2]} ELSE ThreeKeys)
         \/ NextTs(ThreeKeys) ]_vars

\* What the constructor's options say about the fields of cache c: weight
\* mode exactly when a weight function is supplied and maxWeight > 0, with
\* maxSize unbounded; otherwise count mode with maxWeight unbounded, maxSize
\* as supplied (if positive) or 50 (if absent), and currentWeight 0.
C26_ModeOf(c, o) ==
  /\ c.isWeightedMode
       = (o.calculateItemWeight /\ ~o.maxWeight.isNull /\ o.maxWeight.num > 0)
  /\ c.isWeightedMode => (c.maxWeight = o.maxWeight.num /\ c.maxSize = Infinity)
  /\ ~c.isWeightedMode =>
       /\ c.maxWeight = Infinity
       /\ o.maxSize.isNull => c.maxSize = 50
       /\ (~o.maxSize.isNull /\ o.maxSize.num > 0) => c.maxSize = o.maxSize.num
       /\ c.currentWeight = 0

\* C26: both LRUCache classes: the mode is the one the constructor's options
\* select, and isWeightedMode, maxWeight and maxSize are what the constructor
\* set in every state reached by has/get/set/clear calls; in count mode
\* currentWeight is 0 in every such state.
C26_ModeFixed ==
  /\ impl = "list" => C26_ModeOf(list, options)
  /\ impl = "ts" => C26_ModeOf(ts, options)

\* C26 witness: a cache given a weight function but no maxWeight runs in count
\* mode with the default maxSize, and holds entries after a set; likewise a
\* cache in weight mode has evicted.
C26_Witness ==
  /\ impl = "ts"
  /\ options.calculateItemWeight /\ options.maxWeight.isNull /\ options.maxSize.isNull
  /\ tsCall.op = "set" /\ Size(ts) = 2
  /\ \E k \in DOMAIN ts.cache : ts.cache[k].value # <<>>

\* ======================================================================
\* Request handlers sharing memoryCache (src/unnamed/part_000)
\* ======================================================================

\* Handlers in flight at the same time.
MaxHandlers == 2

\* The code that looks a key up in memoryCache and stores under it after its
\* awaits: sendToAI, queryWikipedia, the welcome-message route, fetchTextFile.
HandlerKinds == {"sendToAI", "queryWikipedia", "welcomeMessage", "fetchTextFile"}

\* One cache key for each of them.
HandlerKey(kind) ==
  CASE kind = "sendToAI" -> <<"c">>
    [] kind = "queryWikipedia" -> <<"w">>
    [] kind = "welcomeMessage" -> <<"h">>
    [] kind = "fetchTextFile" -> <<"f">>

\* What a handler stores: a text of weight 1 and one of weight maxWeight + 1
\* (which is refused, and removes the key).
HandlerValues == {Str("x", 1), Str("x", MaxWeight + 1)}

\* A handler: where it stands and, once has has returned true, the value
\* that was resident under its key at that moment.
HandlerIdle == [kind |-> "none", pc |-> "none", seen |-> JsNull]

\* A request arrives and its handler runs up to its memoryCache.has call.
HandlerStart(id, kind) ==
  /\ impl = "ts"
  /\ running = 0
  /\ handlers[id].pc = "none"
  /\ handlers' = [handlers EXCEPT ![id] = [HandlerIdle EXCEPT !.kind = kind,
                                                             !.pc = "has"]]
  /\ running' = id
  /\ UNCHANGED <<impl, chatVars, options, rate, listVars, legacyVars, tsVars, now>>

\* A has that is followed by an await before the handler goes on to get.
HandlerHas_yields(id) ==
  /\ impl = "ts"
  /\ running = id
  /\ handlers[id].pc = "has"
  /\ LET key == HandlerKey(handlers[id].kind)
         had == TS_has(ts, key)
     IN /\ handlers' = [handlers EXCEPT
                          ![id].seen = IF had THEN JsStr(TS_getResult(ts, key))
                                       ELSE JsNull,
                          ![id].pc = IF had THEN "get" ELSE "await"]
        /\ running' = 0
        /\ tsCall' = Call("has", key, <<>>, had, <<>>)
  /\ UNCHANGED <<impl, chatVars, options, rate, listVars, legacyVars, ts, tsScen, now>>

\* if (memoryCache.has(cacheKey)): on true the handler goes straight on to
\* get, on false it goes on to its first await and gives up the thread.
HandlerHas(id) ==
  /\ impl = "ts"
  /\ running = id
  /\ handlers[id].pc = "has"
  /\ LET key == HandlerKey(handlers[id].kind)
         had == TS_has(ts, key)
     IN /\ handlers' = [handlers EXCEPT
                          ![id].seen = IF had THEN JsStr(TS_getResult(ts, key))
                                       ELSE JsNull,
                          ![id].pc = IF had THEN "get" ELSE "await"]
        /\ running' = IF had THEN id ELSE 0
        /\ tsCall' = Call("has", key, <<>>, had, <<>>)
  /\ UNCHANGED <<impl, chatVars, options, rate, listVars, legacyVars, ts, tsScen, now>>

\* return memoryCache.get(cacheKey): the handler ends.
HandlerGet(id, d) ==
  /\ impl = "ts"
  /\ running = id
  /\ handlers[id].pc = "get"
  /\ MemGet(HandlerKey(handlers[id].kind), d)
  /\ handlers' = [handlers EXCEPT ![id] = HandlerIdle]
  /\ running' = 0
  /\ UNCHANGED <<impl, chatVars, options, rate, listVars, legacyVars>>

\* The awaited fetch, KV read or model call settles while no handler runs:
\* the handler goes on to store its result, or ends without storing.
HandlerResume(id, stores) ==
  /\ impl = "ts"
  /\ running = 0
  /\ handlers[id].pc = "await"
  /\ handlers' = [handlers EXCEPT ![id] = IF stores THEN [@ EXCEPT !.pc = "set"]
                                          ELSE HandlerIdle]
  /\ running' = IF stores THEN id ELSE 0
  /\ UNCHANGED <<impl, chatVars, options, rate, listVars, legacyVars, tsVars, now>>

\* memoryCache.set(cacheKey, value), after which the handler returns.
HandlerSet(id, value, d) ==
  /\ impl = "ts"
  /\ running = id
  /\ handlers[id].pc = "set"
  /\ MemSet(HandlerKey(handlers[id].kind), value, d)
  /\ handlers' = [handlers EXCEPT ![id] = HandlerIdle]
  /\ running' = 0
  /\ UNCHANGED <<impl, chatVars, options, rate, listVars, legacyVars>>

NextHandlers ==
  \/ \E id \in 1..MaxHandlers, kind \in HandlerKinds : HandlerStart(id, kind)
  \/ \E id \in 1..MaxHandlers : HandlerHas(id)
  \/ \E id \in 1..MaxHandlers, d \in Ticks : HandlerGet(id, d)
  \/ \E id \in 1..MaxHandlers, stores \in BOOLEAN : HandlerResume(id, stores)
  \/ \E id \in 1..MaxHandlers, value \in HandlerValues, d \in Ticks :
        HandlerSet(id, value, d)

\* The worker with its weighted memoryCache and no request yet.
InitHandlers ==
  /\ impl = "ts"
  /\ list = LL_constructor(TRUE, MaxWeight, Infinity)
  /\ ts = TS_constructor(TRUE, MaxWeight, Infinity)
  /\ legacy = LG_constructor(MaxSize)
  /\ listCall = Call("new", <<>>, <<>>, FALSE, <<>>)
  /\ tsCall = Call("new", <<>>, <<>>, FALSE, <<>>)
  /\ legacyCall = Call("new", <<>>, <<>>, FALSE, <<>>)
  /\ listScen = ScenInit
  /\ tsScen = ScenInit
  /\ listOrder = <<>>
  /\ now = 0
  /\ messages = <<>>
  /\ cacheKey = NoKey
  /\ env = [AI |-> TRUE, KV |-> FALSE]
  /\ kv = EmptyMap
  /\ req = ReqIdle
  /\ waiting = <<>>
  /\ calls = 0
  /\ options = OptionsFor(ts)
  /\ handlers = [id \in 1..MaxHandlers |-> HandlerIdle]
  /\ running = 0
  /\ rate = RateInit

SpecHandlers == InitHandlers /\ [][NextHandlers]_vars

\* ----------------------------------------------------------------------
\* C27
\* ----------------------------------------------------------------------

\* C27: handlers that share memoryCache and give up the thread only at their
\* awaits: a handler whose has(key) returned true is still the running one
\* when it calls get(key), the value that was resident at the has is still
\* resident then, and the get returns it.
C27_HasThenGet ==
  [][ impl = "ts" =>
        \A id \in DOMAIN handlers :
          /\ handlers'[id].pc = "get" =>
               /\ running' = id
               /\ TS_has(ts', HandlerKey(handlers'[id].kind))
               /\ JsStr(TS_getResult(ts', HandlerKey(handlers'[id].kind)))
                    = handlers'[id].seen
          /\ (handlers[id].pc = "get" /\ handlers'[id].pc # "get") =>
               /\ tsCall'.op = "get"
               /\ tsCall'.key = HandlerKey(handlers[id].kind)
               /\ tsCall'.found
               /\ JsStr(tsCall'.out) = handlers[id].seen ]_vars

\* C27 witness: a handler is about to get the value it saw while another
\* handler of the same key, whose has returned false earlier, is at its await
\* and a third key's entry is resident.
C27_Witness ==
  /\ impl = "ts"
  /\ Size(ts) >= 2
  /\ \E id, other \in DOMAIN handlers :
        /\ id # other
        /\ handlers[id].pc = "get"
        /\ handlers[other].pc = "await"
        /\ handlers[other].kind = handlers[id].kind

\* ======================================================================
\* The two LRUCache classes side by side
\* ======================================================================

\* The same call is made on a linked-list cache and on a timestamp-based
\* cache of the same configuration, the clock advancing between any two calls.
BothHas(key) ==
  /\ impl = "both"
  /\ listCall' = Call("has", key, <<>>, LL_has(list, key), <<>>)
  /\ list' = [list EXCEPT !.threw = FALSE]
  /\ tsCall' = Call("has", key, <<>>, TS_has(ts, key), <<>>)
  /\ UNCHANGED <<impl, workerVars, chatVars, listScen, listOrder, ts, tsScen,
                 legacyVars, now>>

BothGet(key) ==
  /\ impl = "both"
  /\ LET c0 == [list EXCEPT !.threw = FALSE]
         c1 == LL_collect(LL_get(c0, key))
     IN /\ list' = c1
        /\ listCall' = Call("get", key, <<>>, LL_getFound(c0, key), LL_getResult(c0, key))
        /\ listScen' = ScenGet(listScen, key, c0.maxSize)
        /\ listOrder' = Touch(listOrder, key, DOMAIN c1.cache)
  /\ LET c1 == TS_get(ts, key, now + 1)
     IN /\ ts' = Rebased(c1, now + 1)
        /\ now' = RebaseClock(c1.keyTimestamps, now + 1)
  /\ tsCall' = Call("get", key, <<>>, TS_getFound(ts, key), TS_getResult(ts, key))
  /\ tsScen' = ScenGet(tsScen, key, ts.maxSize)
  /\ UNCHANGED <<impl, workerVars, chatVars, legacyVars>>

BothSet(key, value) ==
  /\ impl = "both"
  /\ LET c0 == [list EXCEPT !.threw = FALSE]
         c1 == LL_collect(LL_set(c0, key, value))
     IN /\ WeightInRange(c1.currentWeight)
        /\ Len(c1.nodes) <= MaxNodes
        /\ list' = c1
        /\ listCall' = Call("set", key, value, FALSE, <<>>)
        /\ listScen' = ScenWrite(listScen, key, value, LL_getResult(c0, key), c0.maxSize)
        /\ listOrder' = Touch(listOrder, key, DOMAIN c1.cache)
  /\ LET c1 == TS_set(ts, key, value, now + 1)
     IN /\ ts' = Rebased(c1, now + 1)
        /\ now' = RebaseClock(c1.keyTimestamps, now + 1)
  /\ tsCall' = Call("set", key, value, FALSE, <<>>)
  /\ tsScen' = ScenWrite(tsScen, key, value, TS_getResult(ts, key), ts.maxSize)
  /\ UNCHANGED <<impl, workerVars, chatVars, legacyVars>>

BothClear ==
  /\ impl = "both"
  /\ list' = LL_collect(LL_clear([list EXCEPT !.threw = FALSE]))
  /\ listCall' = Call("clear", <<>>, <<>>, FALSE, <<>>)
  /\ listScen' = ScenInit
  /\ listOrder' = <<>>
  /\ ts' = TS_clear(ts)
  /\ now' = RebaseClock(<<>>, now)
  /\ tsCall' = Call("clear", <<>>, <<>>, FALSE, <<>>)
  /\ tsScen' = ScenInit
  /\ UNCHANGED <<impl, workerVars, chatVars, legacyVars>>

NextBoth(K) ==
  \/ \E key \in K : BothHas(key)
  \/ \E key \in K : BothGet(key)
  \/ \E key \in K, value \in ValuesFor(list.isWeightedMode) : BothSet(key, value)
  \/ BothClear

\* Both caches constructed with the same options: maxWeight, or a maxSize.
InitBoth(weighted) ==
  /\ impl = "both"
  /\ options \in IF weighted
                 THEN {[calculateItemWeight |-> TRUE, maxWeight |-> Num(MaxWeight),
                        maxSize |-> NumNull]}
                 ELSE {[calculateItemWeight |-> FALSE, maxWeight |-> NumNull,
                        maxSize |-> Num(n)] : n \in 1..MaxSize}
  /\ list = LL_new(options)
  /\ ts = TS_new(options)
  /\ legacy = LG_constructor(MaxSize)
  /\ listCall = Call("new", <<>>, <<>>, FALSE, <<>>)
  /\ tsCall = Call("new", <<>>, <<>>, FALSE, <<>>)
  /\ legacyCall = Call("new", <<>>, <<>>, FALSE, <<>>)
  /\ listScen = ScenInit
  /\ tsScen = ScenInit
  /\ listOrder = <<>>
  /\ now = 0
  /\ messages = <<>>
  /\ cacheKey = NoKey
  /\ env = [AI |-> TRUE, KV |-> FALSE]
  /\ kv = EmptyMap
  /\ req = ReqIdle
  /\ waiting = <<>>
  /\ calls = 0
  /\ handlers = NoHandlers
  /\ running = 0
  /\ rate = RateInit

\* Non-empty keys only, in either mode; and in count mode alone.
SpecBoth ==
  (\E weighted \in BOOLEAN : InitBoth(weighted))
  /\ [][NextBoth(IF list.isWeightedMode THEN TwoNonEmptyKeys ELSE NonEmptyKeys)]_vars

SpecBothCount == InitBoth(FALSE) /\ [][NextBoth(NonEmptyKeys)]_vars

\* ----------------------------------------------------------------------
\* C28
\* ----------------------------------------------------------------------

\* C28: the linked-list cache and the timestamp-based cache, of the same
\* configuration and given the same calls over non-empty keys with a strictly
\* increasing clock: every has and get returns the same in both (and neither
\* call throws), and after every call both hold the same resident keys and
\* the same currentWeight.
C28_SameBehaviour ==
  impl = "both" =>
    /\ ~list.threw
    /\ listCall.found = tsCall.found
    /\ listCall.out = tsCall.out
    /\ DOMAIN list.cache = DOMAIN ts.cache
    /\ list.currentWeight = ts.currentWeight

\* ======================================================================
\* C29: a failed sendToAI and the caches
\* ======================================================================

\* sendToAI has returned one of its two apologies: env.AI is not bound, or
\* the catch block ran.
C29_Failed ==
  /\ C19_Returned
  /\ req.reply \in {JsStr(NotConfigured), JsStr(Trouble)}

\* The call made no memoryCache.set(cacheKey, ...) and no
\* kvCache.set(cacheKey, ...).
C29_NothingStoredForKey ==
  /\ ~HasOp(req.events, "KV.put")
  /\ \A i \in 1..Len(req.events) :
       req.events[i].op = "memoryCache.set" => req.events[i].key # cacheKey.slice.str

\* C29: a sendToAI that returns an apology has made no memoryCache.set and
\* no KV put under the key of the request.
C29_FailureNotStored ==
  C29_Failed => C29_NothingStoredForKey

\* C29, the part that holds: no apology is ever a value in memoryCache or in
\* KV, a call that returns an apology has made no KV put, and with env.AI
\* not bound sendToAI makes no call on the caches at all.
C29_NoApologyCached ==
  /\ C29_Failed => ~HasOp(req.events, "KV.put")
  /\ C29_Failed /\ req.reply = JsStr(NotConfigured) => req.events = <<>>
  /\ impl = "ts" =>
       /\ \A k \in DOMAIN ts.cache :
            ts.cache[k].value \notin {NotConfigured, Trouble}
       /\ \A k \in DOMAIN kv :
            kv[k] \notin {JsonStringify(NotConfigured), JsonStringify(Trouble)}

\* C29, what follows a failed call whose look-up was stored under the key of
\* the request: the next identical call is answered from memoryCache with
\* the look-up's result object, and the model is not called.
C29_AnsweredWithLookup ==
  /\ C19_Returned
  /\ req.memHad \in {JsStr(WikiFound), JsStr(WikiNone)}
  /\ req.reply = req.memHad
  /\ ~HasOp(req.events, "AI.run")

\* ======================================================================
\* The rate limiter of the fetch handler (src/unnamed/part_000)
\* ======================================================================

\* const currentCount = await env.RATE_LIMITER_KV.get(key);
\* const count = currentCount ? parseInt(currentCount) : 0;
RateCount(v) == IF v.isNull THEN 0 ELSE v.num

\* A request comes in.  With a CF-Connecting-IP the rate limiter's check is
\* started and gets as far as its await of RATE_LIMITER_KV.get; without one
\* ('unknown_ip') the check returns false at once.  The handler goes on to
\* the routes, and an /api/ route stops at its await of rateLimitPromise.
RateArrive(i, knownIP, api) ==
  /\ impl = "rate"
  /\ rate.arrived < MaxRequests
  /\ rate.requests[i] = NoRequest
  /\ rate' = IF knownIP
             THEN [rate EXCEPT !.arrived = @ + 1,
                               !.requests[i] =
                                  [pc |-> "get", api |-> api, count |-> 0,
                                   verdict |-> IF api THEN "wait"
                                                      ELSE "none",
                                   known |-> TRUE]]
             ELSE IF api
             THEN [rate EXCEPT !.arrived = @ + 1,
                               !.requests[i] =
                                  [pc |-> "none", api |-> TRUE, count |-> 0,
                                   verdict |-> "false", known |-> FALSE]]
             ELSE [rate EXCEPT !.arrived = @ + 1]
  /\ UNCHANGED <<impl, options, handlers, running, chatVars, listVars,
                 legacyVars, tsVars, now>>

\* await env.RATE_LIMITER_KV.get(key) returns the value stored now and the
\* check runs to its end: at 100 and above it returns true; below, the put
\* of count + 1 is sent without being awaited and it returns false.  The
\* route that awaits rateLimitPromise has not resumed yet.
RateGetReturns(i) ==
  /\ impl = "rate"
  /\ rate.requests[i].pc = "get"
  /\ LET count == RateCount(rate.kv)
         r == rate.requests[i]
     IN rate' = IF count >= RateLimit
                THEN [rate EXCEPT !.requests[i] =
                         IF r.api
                         THEN [r EXCEPT !.pc = "none", !.count = count,
                                        !.verdict = "true"]
                         ELSE NoRequest]
                ELSE [rate EXCEPT !.requests[i] =
                         [r EXCEPT !.pc = "put", !.count = count,
                                   !.verdict = IF r.api THEN "false"
                                                        ELSE "none"]]
  /\ UNCHANGED <<impl, options, handlers, running, chatVars, listVars,
                 legacyVars, tsVars, now>>

\* const isRateLimited = await rateLimitPromise resumes the /api/ route with
\* the value the check returned: true is answered with 429 'Too Many
\* Requests', false goes on to the route's handler.
RateRouteResumes(i) ==
  /\ impl = "rate"
  /\ rate.requests[i].verdict \in {"true", "false"}
  /\ LET r == rate.requests[i]
         left == [r EXCEPT !.verdict = "none"]
     IN rate' = [rate EXCEPT
                   !.requests[i] = IF r.pc = "none" THEN NoRequest ELSE left,
                   !.refused = IF r.verdict = "true" THEN @ + 1 ELSE @,
                   !.admitted = IF r.verdict = "false" /\ r.known
                                THEN @ + 1 ELSE @,
                   !.unknown = IF r.verdict = "false" /\ ~r.known
                               THEN @ + 1 ELSE @]
  /\ UNCHANGED <<impl, options, handlers, running, chatVars, listVars,
                 legacyVars, tsVars, now>>

\* env.RATE_LIMITER_KV.put(key, (count + 1).toString(), ...) takes effect.
RatePutLands(i) ==
  /\ impl = "rate"
  /\ rate.requests[i].pc = "put"
  /\ LET r == rate.requests[i]
         left == [r EXCEPT !.pc = "none"]
     IN rate' = [rate EXCEPT
                   !.kv = Num(r.count + 1),
                   !.requests[i] = IF r.verdict = "none" THEN NoRequest
                                                         ELSE left]
  /\ UNCHANGED <<impl, options, handlers, running, chatVars, listVars,
                 legacyVars, tsVars, now>>

NextRate ==
  \/ \E i \in 1..MaxInFlight, knownIP \in BOOLEAN, api \in BOOLEAN :
        RateArrive(i, knownIP, api)
  \/ \E i \in 1..MaxInFlight : RateGetReturns(i)
  \/ \E i \in 1..MaxInFlight : RateRouteResumes(i)
  \/ \E i \in 1..MaxInFlight : RatePutLands(i)

\* One client in one minute, with RATE_LIMITER_KV bound and working, after
\* any number of requests up to the limit that were served one after the
\* other.
InitRate ==
  /\ impl = "rate"
  /\ list = LL_constructor(TRUE, MaxWeight, Infinity)
  /\ ts = TS_constructor(TRUE, MaxWeight, Infinity)
  /\ legacy = LG_constructor(MaxSize)
  /\ listCall = Call("new", <<>>, <<>>, FALSE, <<>>)
  /\ tsCall = Call("new", <<>>, <<>>, FALSE, <<>>)
  /\ legacyCall = Call("new", <<>>, <<>>, FALSE, <<>>)
  /\ listScen = ScenInit
  /\ tsScen = ScenInit
  /\ listOrder = <<>>
  /\ now = 0
  /\ messages = <<>>
  /\ cacheKey = NoKey
  /\ env = [AI |-> TRUE, KV |-> FALSE]
  /\ kv = EmptyMap
  /\ req = ReqIdle
  /\ waiting = <<>>
  /\ calls = 0
  /\ options = OptionsFor(ts)
  /\ handlers = NoHandlers
  /\ running = 0
  /\ rate \in {RateAfter(n) : n \in 0..RateLimit}

SpecRate == InitRate /\ [][NextRate]_vars

\* ----------------------------------------------------------------------
\* C30
\* ----------------------------------------------------------------------

\* C30: of the /api/ requests of one client with a known IP in one minute,
\* at most 100 go on to their handler, however the KV gets and the puts of
\* concurrent requests fall.
C30_AtMostLimit ==
  impl = "rate" => rate.admitted <= RateLimit

\* C30, the part that holds: an /api/ request whose KV get returned 100 or
\* more is answered with 429 and does not go on to its handler.
C30_RefusedAtLimit ==
  [][ \A i \in 1..MaxInFlight :
        (/\ impl = "rate"
         /\ rate.requests[i].verdict \in {"true", "false"}
         /\ rate'.requests[i].verdict = "none"
         /\ rate.requests[i].count >= RateLimit)
        => rate'.refused = rate.refused + 1 /\ rate'.admitted = rate.admitted ]_vars

====
